---- MODULE Spec2Model ----
(***************************************************************************)
(* site-scraper: the crawl engine (crawler.ts), the document rewriter      *)
(* (processors/html.ts), the stylesheet rewriter and the path mapper       *)
(* (utils/url.ts, utils/filesystem.ts).                                    *)
(*                                                                         *)
(* Strings are sequences of tokens.  A token is one punctuation character  *)
(* ("/", ".", "_", "-", ":", "?", "#", "\\") or a maximal run of           *)
(* characters of [a-zA-Z0-9] (a word such as "html").  Two words are never *)
(* adjacent, so two token sequences are equal exactly when the strings     *)
(* they stand for are equal.                                               *)
(***************************************************************************)
EXTENDS Integers, Sequences, FiniteSets, TLC

\* ------------------------------------------------------------------------
\* Strings
\* ------------------------------------------------------------------------

Punct == {"/", ".", "_", "-", ":", "?", "#", "\\"}

\* [a-z0-9]+ (case-insensitive): a word token
IsAlnum(t) == t \notin Punct

Last(s) == s[Len(s)]

\* String.prototype.endsWith / startsWith for one character
EndsWith(s, c) == Len(s) > 0 /\ Last(s) = c
StartsWith(s, c) == Len(s) > 0 /\ s[1] = c

\* s.split(c)[0]: the part of s before the first c
RECURSIVE SplitFirstFrom(_, _, _)
SplitFirstFrom(s, c, i) ==
  IF i > Len(s) THEN s
  ELSE IF s[i] = c THEN SubSeq(s, 1, i - 1)
  ELSE SplitFirstFrom(s, c, i + 1)

SplitFirst(s, c) == SplitFirstFrom(s, c, 1)

\* s.split("/"): the segments between the separators, empty ones included
RECURSIVE SplitFrom(_, _, _)
SplitFrom(s, i, cur) ==
  IF i > Len(s) THEN <<cur>>
  ELSE IF s[i] = "/" THEN <<cur>> \o SplitFrom(s, i + 1, <<>>)
  ELSE SplitFrom(s, i + 1, Append(cur, s[i]))

Split(s) == SplitFrom(s, 1, <<>>)

\* segs.join("/")
RECURSIVE JoinSegs(_)
JoinSegs(segs) ==
  IF Len(segs) = 0 THEN <<>>
  ELSE IF Len(segs) = 1 THEN segs[1]
  ELSE segs[1] \o <<"/">> \o JoinSegs(Tail(segs))

\* ------------------------------------------------------------------------
\* node:path (posix)
\* ------------------------------------------------------------------------

DotSeg == <<".">>
DotDotSeg == <<".", ".">>

\* normalizeString of node:path: drops empty and "." segments, resolves ".."
RECURSIVE NormSegs(_, _, _, _)
NormSegs(segs, i, acc, abs) ==
  IF i > Len(segs) THEN acc
  ELSE LET s == segs[i] IN
    IF s = <<>> \/ s = DotSeg THEN NormSegs(segs, i + 1, acc, abs)
    ELSE IF s = DotDotSeg THEN
      IF Len(acc) > 0 /\ Last(acc) # DotDotSeg
        THEN NormSegs(segs, i + 1, SubSeq(acc, 1, Len(acc) - 1), abs)
      ELSE IF abs THEN NormSegs(segs, i + 1, acc, abs)
      ELSE NormSegs(segs, i + 1, Append(acc, s), abs)
    ELSE NormSegs(segs, i + 1, Append(acc, s), abs)

\* the non-empty segments of a normalized path
PathSegs(p) == NormSegs(Split(p), 1, <<>>, StartsWith(p, "/"))

\* path.normalize
pathNormalize(p) ==
  IF Len(p) = 0 THEN DotSeg
  ELSE LET abs == StartsWith(p, "/")
           body == JoinSegs(PathSegs(p))
           trail == IF EndsWith(p, "/") /\ Len(body) > 0 THEN <<"/">> ELSE <<>>
       IN IF abs THEN <<"/">> \o body \o trail
          ELSE IF Len(body) = 0 THEN DotSeg
          ELSE body \o trail

\* path.join(a, b)
pathJoin(a, b) ==
  pathNormalize(IF Len(a) = 0 THEN b
                ELSE IF Len(b) = 0 THEN a
                ELSE a \o <<"/">> \o b)

\* index of the last "/" of p, 0 when there is none
RECURSIVE LastSlash(_, _)
LastSlash(p, i) ==
  IF i = 0 THEN 0 ELSE IF p[i] = "/" THEN i ELSE LastSlash(p, i - 1)

\* path.dirname of a path that does not end in "/"
pathDirname(p) ==
  LET i == LastSlash(p, Len(p)) IN
    IF i = 0 THEN DotSeg
    ELSE IF i = 1 THEN <<"/">>
    ELSE SubSeq(p, 1, i - 1)

\* length of the common prefix of two segment lists
RECURSIVE CommonLen(_, _, _)
CommonLen(a, b, i) ==
  IF i < Len(a) /\ i < Len(b) /\ a[i + 1] = b[i + 1]
    THEN CommonLen(a, b, i + 1)
    ELSE i

\* path.relative(from, to) for two absolute paths
pathRelative(from, to) ==
  LET f == PathSegs(from)
      t == PathSegs(to)
      c == CommonLen(f, t, 0)
      ups == [k \in 1..(Len(f) - c) |-> DotDotSeg]
  IN JoinSegs(ups \o SubSeq(t, c + 1, Len(t)))

\* path.resolve(dir, rel) for an absolute dir: the normalized path without a
\* trailing separator, which is what a file system makes of a relative
\* reference found in a file of directory dir
pathResolve(dir, rel) ==
  LET p == pathJoin(dir, rel) IN
    IF Len(p) > 1 /\ EndsWith(p, "/") THEN SubSeq(p, 1, Len(p) - 1) ELSE p

\* ------------------------------------------------------------------------
\* utils/filesystem.ts
\* ------------------------------------------------------------------------

\* .replace(/[^a-zA-Z0-9._-]/g, "_")
ReplaceUnsafe(s) ==
  [i \in 1..Len(s) |->
     IF IsAlnum(s[i]) \/ s[i] \in {".", "_", "-"} THEN s[i] ELSE "_"]

\* .replace(/_+/g, "_")
RECURSIVE CollapseUnderscores(_)
CollapseUnderscores(s) ==
  IF Len(s) < 2 THEN s
  ELSE IF s[1] = "_" /\ s[2] = "_" THEN CollapseUnderscores(Tail(s))
  ELSE <<s[1]>> \o CollapseUnderscores(Tail(s))

\* .replace(/^_+|_+$/g, "")
RECURSIVE TrimUnderscores(_)
TrimUnderscores(s) ==
  IF Len(s) = 0 THEN s
  ELSE IF s[1] = "_" THEN TrimUnderscores(Tail(s))
  ELSE IF Last(s) = "_" THEN TrimUnderscores(SubSeq(s, 1, Len(s) - 1))
  ELSE s

safeFilename(s) == TrimUnderscores(CollapseUnderscores(ReplaceUnsafe(s)))

\* ------------------------------------------------------------------------
\* utils/url.ts
\* ------------------------------------------------------------------------

\* pathname.match(/\.[a-z0-9]+$/i)
HasExtension(p) == Len(p) >= 2 /\ IsAlnum(Last(p)) /\ p[Len(p) - 1] = "."

\* the part of a mapped path before the first "?" and the first "#"
StripQueryHash(p) == SplitFirst(SplitFirst(p, "?"), "#")

\* A URL is a record [host, pathname, search, hash]; the scheme is http for
\* every URL of the model, so the origin is the host (with its port).
Origin(u) == u.host

\* a same-origin branch that keeps the pathname as it is
SameOriginPathAsIs(target, outDir) == StripQueryHash(pathJoin(outDir, target.pathname))

\* the same-origin branch of urlToLocalPath
SameOriginPath(target, outDir) ==
  LET p0 == target.pathname
      p == IF EndsWith(p0, "/") THEN pathJoin(p0, <<"index", ".", "html">>)
           ELSE IF ~HasExtension(p0) THEN p0 \o <<".", "html">>
           ELSE p0
  IN StripQueryHash(pathJoin(outDir, p))

\* the external branch of urlToLocalPath
ExternalPath(target, outDir, extHint) ==
  LET hostDir == pathJoin(outDir, safeFilename(target.host))
      pathname == IF EndsWith(target.pathname, "/")
                    THEN target.pathname \o <<"index">>
                    ELSE target.pathname
      withExt == IF HasExtension(pathname) THEN pathname
                 ELSE pathname \o extHint
  IN StripQueryHash(pathJoin(hostDir, withExt))

urlToLocalPath(root, target, outDir, extHint) ==
  IF Origin(target) # Origin(root)
    THEN ExternalPath(target, outDir, extHint)
    ELSE SameOriginPath(target, outDir)

\* .replace(/\\/g, "/")
BackslashToSlash(s) == [i \in 1..Len(s) |-> IF s[i] = "\\" THEN "/" ELSE s[i]]

\* a reference computed from the file instead of its directory
makeRelativeFromFile(fromFile, toFile) ==
  LET rel0 == pathRelative(fromFile, toFile)
      rel == IF ~StartsWith(rel0, ".") THEN <<".", "/">> \o rel0 ELSE rel0
  IN BackslashToSlash(rel)

makeRelative(fromFile, toFile) ==
  LET rel0 == pathRelative(pathDirname(fromFile), toFile)
      rel == IF ~StartsWith(rel0, ".") THEN <<".", "/">> \o rel0 ELSE rel0
  IN BackslashToSlash(rel)

\* ------------------------------------------------------------------------
\* WHATWG URL, as far as the program uses it
\* ------------------------------------------------------------------------

Scheme == <<"http", ":", "/", "/">>

\* the tokens of s from position i on
From(s, i) == SubSeq(s, i, Len(s))

\* url.toString(): scheme, host, pathname, "?search", "#hash"
toString(u) ==
  Scheme \o u.host \o u.pathname
    \o (IF Len(u.search) > 0 THEN <<"?">> \o u.search ELSE <<>>)
    \o (IF Len(u.hash) > 0 THEN <<"#">> \o u.hash ELSE <<>>)

\* the URL parser's path state: "." and ".." segments are resolved, empty
\* segments are kept
RECURSIVE UrlSegs(_, _, _)
UrlSegs(segs, i, acc) ==
  IF i > Len(segs) THEN acc
  ELSE LET s == segs[i]
           popped == IF Len(acc) > 0 THEN SubSeq(acc, 1, Len(acc) - 1) ELSE acc
       IN IF s = DotSeg
            THEN IF i = Len(segs) THEN Append(acc, <<>>) ELSE UrlSegs(segs, i + 1, acc)
          ELSE IF s = DotDotSeg
            THEN IF i = Len(segs) THEN Append(popped, <<>>)
                 ELSE UrlSegs(segs, i + 1, popped)
          ELSE UrlSegs(segs, i + 1, Append(acc, s))

\* the path, query and fragment of a reference that starts at its pathname
ParsePath(host, rest) ==
  LET noHash == SplitFirst(rest, "#")
      path == SplitFirst(noHash, "?")
  IN [host |-> host,
      pathname |-> IF Len(path) = 0 THEN <<"/">>
                   ELSE <<"/">> \o JoinSegs(UrlSegs(Split(From(path, 2)), 1, <<>>)),
      search |-> IF Len(noHash) > Len(path) THEN From(noHash, Len(path) + 2) ELSE <<>>,
      hash |-> IF Len(rest) > Len(noHash) THEN From(rest, Len(noHash) + 2) ELSE <<>>]

IsAbsoluteRef(s) == Len(s) >= 4 /\ SubSeq(s, 1, 4) = Scheme

\* new URL(s) throws: no scheme, or an empty host
IsInvalidURL(s) ==
  \/ ~IsAbsoluteRef(s)
  \/ Len(SplitFirst(From(s, 5), "/")) = 0

\* new URL(s) for a string that parses
ParseURL(s) ==
  LET rest == From(s, 5)
      host == SplitFirst(SplitFirst(SplitFirst(rest, "/"), "?"), "#")
  IN ParsePath(host, From(rest, Len(host) + 1))

\* new URL(ref, base) throws
IsInvalidRef(ref) == IsAbsoluteRef(ref) /\ IsInvalidURL(ref)

\* a reference with a scheme other than http ("mailto:x"): it parses, and its
\* origin is the opaque origin "null"
HasOtherScheme(ref) ==
  Len(ref) >= 2 /\ IsAlnum(ref[1]) /\ ref[2] = ":" /\ ~IsAbsoluteRef(ref)

NullOrigin == <<"null">>

\* new URL(ref, base) for an absolute URL, a path-absolute reference ("/x")
\* or a path-relative one ("x", "../x")
ResolveRef(ref, base) ==
  IF IsAbsoluteRef(ref) THEN ParseURL(ref)
  ELSE IF HasOtherScheme(ref)
    THEN [host |-> NullOrigin, pathname |-> From(ref, 3), search |-> <<>>, hash |-> <<>>]
  ELSE IF StartsWith(ref, "/") THEN ParsePath(base.host, ref)
  ELSE IF Len(ref) = 0 THEN [base EXCEPT !.hash = <<>>]
  ELSE IF StartsWith(ref, "#") THEN [base EXCEPT !.hash = From(ref, 2)]
  ELSE ParsePath(base.host,
                 SubSeq(base.pathname, 1, LastSlash(base.pathname, Len(base.pathname)))
                   \o ref)

\* url.toString().split('#')[0]
CanonicalKey(u) == SplitFirst(toString(u), "#")

\* ------------------------------------------------------------------------
\* The mirrored site: what each URL answers
\* ------------------------------------------------------------------------

RootHost == <<"h">>
ExtHost == <<"cdn">>

\* the start URL given on the command line, and the output directory
startUrl == Scheme \o RootHost \o <<"/">>
outDir == <<"/", "out">>

HtmlType == "text/html; charset=utf-8"

\* a test that takes every response for HTML
IncludesHtmlAlways(ct) == TRUE

\* ct.includes('text/html')
IncludesHtml(ct) == ct \in {"text/html", HtmlType}

Page(anchors, styles, scripts, images) ==
  [ctype |-> HtmlType, anchors |-> anchors, styles |-> styles,
   scripts |-> scripts, images |-> images]

Blob(ctype) ==
  [ctype |-> ctype, anchors |-> <<>>, styles |-> <<>>, scripts |-> <<>>, images |-> <<>>]

\* pathnames of the site
PRoot == <<"/">>
PP == <<"/", "p">>
PX == <<"/", "x">>
PY == <<"/", "y">>
PCss == <<"/", "s", ".", "css">>
PJs == <<"/", "app", ".", "js">>
PFont == <<"/", "font", ".", "woff">>
PSitemap == <<"/", "sitemap", ".", "xml">>
PSitemapIndex == <<"/", "sitemap", "_", "index", ".", "xml">>
PLib == <<"/", "lib", ".", "js">>
PImg == <<"/", "i", ".", "png">>
PGone == <<"/", "gone", ".", "png">>
PExtFont == <<"/", "f", ".", "woff">>
PExtCss == <<"/", "c", ".", "css">>

\* the resources the site serves (anything else is a 404)
SitePaths == {PRoot, PP, PX, PY, PCss, PJs, PFont, PSitemap, PSitemapIndex}

\* the resources the other host serves
ExtPaths == {PLib, PImg, PExtCss}

\* the document behind a URL string
SiteDoc(key) ==
  LET u == ParseURL(key) IN
    IF u.host # RootHost THEN Blob("application/octet-stream")
    ELSE CASE u.pathname = PRoot ->
                Page(<<PX, <<"mailto", ":", "a">>, Scheme \o ExtHost \o <<"/", "e">>>>,
                     <<PCss>>, <<PJs>>, <<>>)
           [] u.pathname = PP ->
                Page(<<PX, <<"tel", ":", "1">>, <<"javascript", ":", "x">>, <<>>, Scheme>>,
                     <<>>, <<>>, <<>>)
           [] u.pathname = PX -> Page(<<PY>>, <<>>, <<>>, <<>>)
           [] u.pathname = PY ->
                Page(<< <<"/", "#", "top">> >>,
                     <<Scheme \o ExtHost \o PExtCss>>, <<Scheme \o ExtHost \o PLib>>,
                     <<Scheme \o ExtHost \o PImg, PGone>>)
           [] u.pathname = PCss -> Blob("text/css")
           [] OTHER -> Blob("application/octet-stream")

\* the url(...) arguments of a stylesheet's text
CssUrls(key) ==
  IF ParseURL(key).pathname = PCss
    THEN << <<"font", ".", "woff">>, Scheme \o ExtHost \o PExtFont >>
    ELSE <<>>

\* the dimensions probe-image-size reads from the body of an image
ProbedSize(key) == "640x480"

\* the dimensions getPlaceholderForImage falls back to
FallbackSize == "800x450"

\* the <loc> values of a sitemap document
SitemapLocs(key) ==
  IF ParseURL(key).pathname = PSitemap
    THEN << Scheme \o RootHost \o PP,
            Scheme \o ExtHost \o <<"/", "z">>,
            <<"not", "-", "a", "-", "url">> >>
  ELSE IF ParseURL(key).pathname = PSitemapIndex
    THEN << Scheme \o RootHost \o PP \o <<"#", "top">> >>
  ELSE <<>>

\* ------------------------------------------------------------------------
\* State
\* ------------------------------------------------------------------------

VARIABLES
  opts,      \* CrawlOptions of the run
  faults,    \* what fails in this run: fetches (after all retries), file writes
  phase,     \* "seeding", "draining", "done"; "rejected" when crawl() rejects
  toVisit,   \* the frontier: sequence of [url, depth]
  seen,      \* the visited set: canonical URL strings
  batch,     \* the page tasks of the current batch: [url, depth, pc]
  subs,      \* the sub-tasks of the rewrites in progress (and orphaned ones)
  files,     \* the output tree: set of [path, kind, src, refs]
  fetchLog,  \* every page fetch started by processPage, in order: [key, depth]
  warned,    \* keys of the "Skipping <key>" warnings
  prevRun,   \* the output tree the previous run of the CLI left, if there was one
  requests,  \* the fetches issued so far: set of [by, key]
  call,      \* the frame of a function called on its own
  args,      \* the arguments of a call of a pure function
  result     \* what the call returned

vars == <<opts, faults, phase, toVisit, seen, batch, subs, files, fetchLog, warned,
          prevRun, requests, call, args, result>>

\* what the steps of a crawl leave alone
fixed == <<opts, faults, prevRun, call, args, result>>

MaxDepth == 2
MaxConcurrency == 2

root == ParseURL(startUrl)

\* What differs from run to run: a URL whose fetch fails after all retries, a
\* URL answered with a content type that is not HTML, a path that cannot be
\* written.
FetchFault(key) == [op |-> "fetch", at |-> key]
NonHtml(key) == [op |-> "nonhtml", at |-> key]
WriteFault(path) == [op |-> "write", at |-> path]

\* facts of the process a run starts in: a browser session left by
\* solveChallenge, the optional sharp module missing
BrowserSession == [op |-> "session", at |-> <<>>]
NoSharp == [op |-> "nosharp", at |-> <<>>]

MaxFaults == 1

KeyOf(pathname) == Scheme \o RootHost \o pathname

\* the faults a run may have
FaultCandidates ==
  { FetchFault(KeyOf(PCss)), FetchFault(KeyOf(PJs)), FetchFault(KeyOf(PX)),
    FetchFault(KeyOf(PSitemap)), NonHtml(KeyOf(PX)),
    WriteFault(SameOriginPath(root, outDir)), BrowserSession, NoSharp }

\* hasBrowserSession()
hasBrowserSession == BrowserSession \in faults

\* the lazily imported sharp module is there
HasSharp == NoSharp \notin faults

\* a fetch issued by a part of the program
Request(by, key) == [by |-> by, key |-> key]

\* res.headers.get('content-type') || ''
ContentType(key) ==
  IF NonHtml(key) \in faults THEN "application/pdf" ELSE SiteDoc(key).ctype

\* fetchWithRetry(key) resolves with a 2xx response
FetchOk(key) ==
  /\ FetchFault(key) \notin faults
  /\ \/ ParseURL(key).host = RootHost /\ ParseURL(key).pathname \in SitePaths
     \/ ParseURL(key).host = ExtHost /\ ParseURL(key).pathname \in ExtPaths

\* fs.writeFile(path, ...) resolves
WriteOk(path) == WriteFault(path) \notin faults

\* fs.writeFile: the file is created or replaced
WriteFile(fs, path, kind, src, refs) ==
  {f \in fs : f.path # path}
    \cup {[path |-> path, kind |-> kind, src |-> src, refs |-> refs]}

Paths(fs) == {f.path : f \in fs}

\* ------------------------------------------------------------------------
\* parsers/sitemap.ts, parsers/links.ts
\* ------------------------------------------------------------------------

\* one candidate of discoverFromSitemap: its <loc> values, none on a failure
CandidateLocs(path) ==
  LET key == toString(ResolveRef(path, root)) IN
    IF FetchOk(key) THEN SitemapLocs(key) ELSE <<>>

discoverFromSitemap ==
  IF hasBrowserSession THEN <<>>
  ELSE CandidateLocs(PSitemap) \o CandidateLocs(PSitemapIndex)

\* the fetches discoverFromSitemap issues
SitemapRequests ==
  IF hasBrowserSession THEN {}
  ELSE { Request("sitemap", toString(ResolveRef(PSitemap, root))),
         Request("sitemap", toString(ResolveRef(PSitemapIndex, root))) }

\* a seeding that takes every seed that parses, whatever its origin
SeedItemsAnyOrigin(seeds, i) ==
  LET ok == SelectSeq(seeds, LAMBDA s : ~IsInvalidURL(s)) IN
    [k \in 1..Len(ok) |-> [url |-> ParseURL(ok[k]), depth |-> 1]]

\* crawl(): the seeds pushed on the frontier
RECURSIVE SeedItems(_, _)
SeedItems(seeds, i) ==
  IF i > Len(seeds) THEN <<>>
  ELSE IF IsInvalidURL(seeds[i]) THEN SeedItems(seeds, i + 1)
  ELSE LET url == ParseURL(seeds[i]) IN
    IF Origin(url) = Origin(root)
      THEN <<[url |-> url, depth |-> 1]>> \o SeedItems(seeds, i + 1)
      ELSE SeedItems(seeds, i + 1)

InSeq(x, sq) == \E k \in 1..Len(sq) : sq[k] = x

IsIgnoredHref(href) ==
  \/ Len(href) = 0
  \/ Len(href) >= 2 /\ href[1] \in {"mailto", "tel", "javascript"} /\ href[2] = ":"

\* extractLinks: the Set of same-origin URL strings, in insertion order
RECURSIVE LinkStrings(_, _, _, _)
LinkStrings(anchors, i, docUrl, urls) ==
  IF i > Len(anchors) THEN urls
  ELSE LET href == anchors[i] IN
    IF IsIgnoredHref(href) \/ IsInvalidRef(href)
      THEN LinkStrings(anchors, i + 1, docUrl, urls)
    ELSE LET url == ResolveRef(href, docUrl)
             str == CanonicalKey(url)
         IN IF Origin(url) = Origin(root) /\ ~InSeq(str, urls)
              THEN LinkStrings(anchors, i + 1, docUrl, Append(urls, str))
              ELSE LinkStrings(anchors, i + 1, docUrl, urls)

\* an extraction that keeps the links to other origins
extractLinksAnyOrigin(doc, docUrl) ==
  LET ok == SelectSeq(doc.anchors, LAMBDA h : ~IsIgnoredHref(h) /\ ~IsInvalidRef(h)) IN
    [k \in 1..Len(ok) |-> ParseURL(CanonicalKey(ResolveRef(ok[k], docUrl)))]

extractLinks(doc, docUrl) ==
  LET urls == LinkStrings(doc.anchors, 1, docUrl, <<>>) IN
    [k \in 1..Len(urls) |-> ParseURL(urls[k])]

\* ------------------------------------------------------------------------
\* processors/stylesheet.ts, processors/html.ts: the sub-tasks of a rewrite
\* ------------------------------------------------------------------------

\* a policy that lets every origin through
DownloadableAlways(url) == TRUE

\* the cross-origin policy of stylesheets, scripts and url() assets
Downloadable(url) == Origin(url) = Origin(root) \/ opts.allowExternalAssets

\* A sub-task of the rewrite of page `page`: the n-th <link> ("css") or
\* <script> ("js") or <img> ("img") of the document, or the n-th url() of
\* its stylesheet `parent` ("asset").  pc is "fetch" while its network operation is in flight.
SubTask(page, kind, n, parent, url, orig) ==
  [page |-> page, kind |-> kind, n |-> n, parent |-> parent, url |-> url,
   orig |-> orig, pc |-> "fetch", val |-> orig]

\* cssTasks, jsTasks and imgTasks of rewriteAndSaveHTML, started before its
\* first await
StartSubTasks(key, pageUrl, doc) ==
  { SubTask(key, "css", n, 0, ResolveRef(doc.styles[n], pageUrl), doc.styles[n]) :
      n \in { m \in 1..Len(doc.styles) :
                /\ ~IsInvalidRef(doc.styles[m])
                /\ Downloadable(ResolveRef(doc.styles[m], pageUrl)) } }
  \cup
  { SubTask(key, "js", n, 0, ResolveRef(doc.scripts[n], pageUrl), doc.scripts[n]) :
      n \in { m \in 1..Len(doc.scripts) :
                /\ ~IsInvalidRef(doc.scripts[m])
                /\ Downloadable(ResolveRef(doc.scripts[m], pageUrl)) } }
  \cup
  { SubTask(key, "img", n, 0, ResolveRef(doc.images[n], pageUrl), doc.images[n]) :
      n \in { m \in 1..Len(doc.images) : ~IsInvalidRef(doc.images[m]) } }

\* a url() filter without the test of the origin
IsRewrittenCssUrlAnyOrigin(raw, cssUrl) ==
  /\ Len(raw) > 0
  /\ ~(Len(raw) >= 2 /\ raw[1] = "data" /\ raw[2] = ":")
  /\ ~IsInvalidRef(raw)

\* processStylesheet: the url() arguments that are rewritten and downloaded
IsRewrittenCssUrl(raw, cssUrl) ==
  /\ Len(raw) > 0
  /\ ~(Len(raw) >= 2 /\ raw[1] = "data" /\ raw[2] = ":")
  /\ ~IsInvalidRef(raw)
  /\ Downloadable(ResolveRef(raw, cssUrl))

\* processStylesheet: the downloadBinary calls it schedules
AssetSubs(css) ==
  LET raws == CssUrls(toString(css.url)) IN
    { SubTask(css.page, "asset", n, css.n, ResolveRef(raws[n], css.url), raws[n]) :
        n \in { m \in 1..Len(raws) : IsRewrittenCssUrl(raws[m], css.url) } }

\* processStylesheet: the url() references of the rewritten CSS text
CssRefs(css) ==
  LET raws == CssUrls(toString(css.url))
      cssPath == urlToLocalPath(root, css.url, outDir, <<>>)
  IN { [tag |-> "url", orig |-> raws[n],
        rewritten |-> IsRewrittenCssUrl(raws[n], css.url),
        val |-> IF IsRewrittenCssUrl(raws[n], css.url)
                  THEN makeRelative(cssPath,
                         urlToLocalPath(root, ResolveRef(raws[n], css.url), outDir, <<>>))
                  ELSE raws[n]] : n \in 1..Len(raws) }

\* the local path of the page being rewritten
PagePath(pageUrl) == urlToLocalPath(root, pageUrl, outDir, <<>>)

\* rewriteAndSaveHTML: the anchors of the saved document
AnchorRefs(pageUrl, doc) ==
  { LET href == doc.anchors[n]
        ok == ~IsInvalidRef(href) /\ Origin(ResolveRef(href, pageUrl)) = Origin(root)
    IN [tag |-> "a", orig |-> href, rewritten |-> ok,
        val |-> IF ok
                  THEN makeRelative(PagePath(pageUrl),
                         urlToLocalPath(root, ResolveRef(href, pageUrl), outDir, <<>>))
                  ELSE href] : n \in 1..Len(doc.anchors) }

\* the <link>, <script> and <img> attributes of the saved document: those of
\* the sub-tasks as they left them, the others untouched
ElementRefs(ss, key, doc) ==
  { LET done == {s \in ss : s.page = key /\ s.kind = "css" /\ s.n = n} IN
      IF done = {} THEN [tag |-> "link", orig |-> doc.styles[n],
                         rewritten |-> FALSE, val |-> doc.styles[n]]
      ELSE LET s == CHOOSE x \in done : TRUE IN
        [tag |-> "link", orig |-> s.orig, rewritten |-> s.pc = "done", val |-> s.val]
    : n \in 1..Len(doc.styles) }
  \cup
  { LET done == {s \in ss : s.page = key /\ s.kind = "js" /\ s.n = n} IN
      IF done = {} THEN [tag |-> "script", orig |-> doc.scripts[n],
                         rewritten |-> FALSE, val |-> doc.scripts[n]]
      ELSE LET s == CHOOSE x \in done : TRUE IN
        [tag |-> "script", orig |-> s.orig, rewritten |-> s.pc = "done", val |-> s.val]
    : n \in 1..Len(doc.scripts) }
  \cup
  { LET done == {s \in ss : s.page = key /\ s.kind = "img" /\ s.n = n} IN
      IF done = {} THEN [tag |-> "img", orig |-> doc.images[n],
                         rewritten |-> FALSE, val |-> doc.images[n]]
      ELSE LET s == CHOOSE x \in done : TRUE IN
        [tag |-> "img", orig |-> s.orig, rewritten |-> s.pc = "done", val |-> s.val]
    : n \in 1..Len(doc.images) }

\* the URL of the placeholder service for an image of the given size
PlaceholdUrl(size) == <<"https", ":", "/", "/", "placehold", ".", "co", "/", size>>

\* getPlaceholderForImage: the size probed from the response, or the common
\* size when the fetch or the probe throws
PlaceholderSize(key) == IF FetchOk(key) THEN ProbedSize(key) ELSE FallbackSize

Settled(s) == s.pc \in {"done", "failed"}

\* a Promise.race in the place of Promise.all: settled by the first sub-task
RewriteOutcomeRace(ss, key) ==
  LET direct == {s \in ss : s.page = key /\ s.kind # "asset"} IN
    IF \E s \in direct : s.pc = "failed" THEN "failed"
    ELSE IF \E s \in direct : s.pc = "done" THEN "write"
    ELSE "rewrite"

\* a Promise.allSettled in the place of Promise.all: a rejected sub-task is
\* not an error of the rewrite
RewriteOutcomeAllSettled(ss, key) ==
  LET direct == {s \in ss : s.page = key /\ s.kind # "asset"} IN
    IF \A s \in direct : Settled(s) THEN "write" ELSE "rewrite"

\* Promise.all([...cssTasks, ...jsTasks, ...imgTasks]): rejects with the first
\* sub-task that rejects, resolves when all have resolved
RewriteOutcome(ss, key) ==
  LET direct == {s \in ss : s.page = key /\ s.kind # "asset"} IN
    IF \E s \in direct : s.pc = "failed" THEN "failed"
    ELSE IF \A s \in direct : s.pc = "done" THEN "write"
    ELSE "rewrite"

\* ------------------------------------------------------------------------
\* crawler.ts
\* ------------------------------------------------------------------------

Min(a, b) == IF a < b THEN a ELSE b

\* a batch that waits for ever for a task that failed
ResolvedUnlessFailed(pc) == pc \in {"skipped", "saved", "nonhtml"}

Resolved(pc) == pc \in {"skipped", "saved", "nonhtml", "failed"}

\* a loop that does not wait for its batch
BatchResolvedAlways == TRUE

BatchResolved == \A i \in 1..Len(batch) : Resolved(batch[i].pc)

TaskKey(t) == CanonicalKey(t.url)

\* a visited set that is never consulted
AlreadySeenNever(key, visited) == FALSE

\* seen.has(key)
AlreadySeen(key, visited) == key \in visited

\* a processPage that follows the links of every page, whatever its depth
ShouldExpandAlways(depth) == TRUE

\* depth < options.maxDepth
ShouldExpand(depth) == depth < opts.maxDepth

\* processPage without its catch: the error reaches Promise.all of crawl()
processPageRethrow(ph) == "rejected"

\* the catch of processPage: the error is logged and the task resolves, so
\* the state of crawl() is what it was
processPageCatch(ph) == ph

\* a processPage whose visited set keeps the last key only
StartPageForgetful(st, item) ==
  LET key == CanonicalKey(item.url) IN
    IF AlreadySeen(key, st.seen)
      THEN [st EXCEPT !.tasks =
              Append(@, [url |-> item.url, depth |-> item.depth, pc |-> "skipped"])]
      ELSE [seen |-> {key},
            tasks |-> Append(st.tasks,
                        [url |-> item.url, depth |-> item.depth, pc |-> "fetch"]),
            log |-> Append(st.log, [key |-> key, depth |-> item.depth])]

\* a processPage that starts the fetch before it consults the visited set
StartPageFetchFirst(st, item) ==
  LET key == CanonicalKey(item.url) IN
    IF AlreadySeen(key, st.seen)
      THEN [st EXCEPT !.tasks =
              Append(@, [url |-> item.url, depth |-> item.depth, pc |-> "skipped"]),
                      !.log = Append(@, [key |-> key, depth |-> item.depth])]
      ELSE [seen |-> st.seen \cup {key},
            tasks |-> Append(st.tasks,
                        [url |-> item.url, depth |-> item.depth, pc |-> "fetch"]),
            log |-> Append(st.log, [key |-> key, depth |-> item.depth])]

\* processPage up to its first await, for one item of the batch
StartPage(st, item) ==
  LET key == CanonicalKey(item.url) IN
    IF AlreadySeen(key, st.seen)
      THEN [st EXCEPT !.tasks =
              Append(@, [url |-> item.url, depth |-> item.depth, pc |-> "skipped"])]
      ELSE [seen |-> st.seen \cup {key},
            tasks |-> Append(st.tasks,
                        [url |-> item.url, depth |-> item.depth, pc |-> "fetch"]),
            log |-> Append(st.log, [key |-> key, depth |-> item.depth])]

\* batch.map((item) => limit(() => processPage(...))): the batch is no larger
\* than the limit, so every item starts at once, in order
RECURSIVE StartPages(_, _)
StartPages(st, items) ==
  IF Len(items) = 0 THEN st
  ELSE StartPages(StartPage(st, Head(items)), Tail(items))

\* the links pushed on the frontier by processPage
RECURSIVE NewItems(_, _, _)
NewItems(links, i, depth) ==
  IF i > Len(links) THEN <<>>
  ELSE IF ~AlreadySeen(CanonicalKey(links[i]), seen)
    THEN <<[url |-> links[i], depth |-> depth + 1]>> \o NewItems(links, i + 1, depth)
    ELSE NewItems(links, i + 1, depth)

\* sub-tasks are kept while their rewrite, or the stylesheet that awaits
\* them, still runs
Retained(ss, b) ==
  { s \in ss :
      \/ ~Settled(s)
      \/ \E i \in 1..Len(b) : TaskKey(b[i]) = s.page /\ b[i].pc \in {"rewrite", "write"}
      \/ s.kind = "asset" /\ \E c \in ss : c.page = s.page /\ c.kind = "css"
                                           /\ c.n = s.parent /\ ~Settled(c) }

\* the page tasks after their sub-tasks changed to ss: a settled Promise.all
\* lets rewriteAndSaveHTML go on to its file write, or throw
SettleBatch(ss) ==
  [i \in 1..Len(batch) |->
     IF batch[i].pc = "rewrite"
       THEN [batch[i] EXCEPT !.pc = RewriteOutcome(ss, TaskKey(batch[i]))]
       ELSE batch[i]]

NewlyFailed(b) == {TaskKey(b[i]) : i \in {j \in 1..Len(b) : b[j].pc = "failed"
                                                           /\ batch[j].pc # "failed"}}

\* the common end of a sub-task step
SubStep(ss) ==
  LET b == SettleBatch(ss) IN
    /\ batch' = b
    /\ subs' = Retained(ss, b)
    /\ warned' = warned \cup NewlyFailed(b)
    /\ phase' = IF NewlyFailed(b) # {} THEN processPageCatch(phase) ELSE phase

Replace(s, t) == (subs \ {s}) \cup {t}

Init ==
  /\ opts \in [maxDepth : 0..MaxDepth, concurrency : 1..MaxConcurrency,
               sitemap : BOOLEAN, allowExternalAssets : BOOLEAN,
               placeholder : {"external", "local"}]
  /\ faults \in {F \in SUBSET FaultCandidates : Cardinality(F) <= MaxFaults}
  /\ phase = "seeding"
  /\ toVisit = <<[url |-> root, depth |-> 0]>>
  /\ seen = {}
  /\ batch = <<>>
  /\ subs = {}
  /\ files = {}
  /\ fetchLog = <<>>
  /\ warned = {}
  /\ prevRun = [done |-> FALSE, tree |-> {}]
  /\ requests = {}
  /\ call = <<>>
  /\ args = <<>>
  /\ result = <<>>

\* crawl(): the optional sitemap seeding
Seed ==
  /\ phase = "seeding"
  /\ toVisit' = toVisit \o (IF opts.sitemap THEN SeedItems(discoverFromSitemap, 1)
                            ELSE <<>>)
  /\ requests' = requests \cup (IF opts.sitemap THEN SitemapRequests ELSE {})
  /\ phase' = "draining"
  /\ UNCHANGED <<fixed, seen, batch, subs, files, fetchLog, warned>>

\* crawl(): one turn of the while loop, up to the await of Promise.all
TakeBatch ==
  /\ phase = "draining"
  /\ BatchResolved
  /\ Len(toVisit) > 0
  /\ LET n == Min(opts.concurrency, Len(toVisit))
         st == StartPages([seen |-> seen, tasks |-> <<>>, log |-> fetchLog],
                          SubSeq(toVisit, 1, n))
     IN /\ toVisit' = SubSeq(toVisit, n + 1, Len(toVisit))
        /\ seen' = st.seen
        /\ batch' = st.tasks
        /\ fetchLog' = st.log
        /\ requests' = requests \cup
             {Request("page", st.log[k].key) : k \in (Len(fetchLog) + 1)..Len(st.log)}
  /\ UNCHANGED <<fixed, phase, subs, files, warned>>

\* crawl(): the loop ends and crawl() resolves
Finish ==
  /\ phase = "draining"
  /\ BatchResolved
  /\ Len(toVisit) = 0
  /\ phase' = "done"
  /\ UNCHANGED <<fixed, toVisit, seen, batch, subs, files, fetchLog, warned, requests>>

\* processPage: fetchWithRetry(key) settles
PageFetched(i) ==
  /\ batch[i].pc = "fetch"
  /\ LET t == batch[i]
         key == TaskKey(t)
         doc == SiteDoc(key)
     IN IF ~FetchOk(key)
          THEN /\ batch' = [batch EXCEPT ![i].pc = "failed"]
               /\ warned' = warned \cup {key}
               /\ phase' = processPageCatch(phase)
               /\ UNCHANGED <<subs, requests>>
        ELSE IF ~IncludesHtml(ContentType(key))
          THEN /\ batch' = [batch EXCEPT ![i].pc = "nonhtml"]
               /\ UNCHANGED <<warned, phase, subs, requests>>
        ELSE LET new == StartSubTasks(key, t.url, doc) IN
               /\ batch' = [batch EXCEPT ![i].pc = IF new = {} THEN "write" ELSE "rewrite"]
               /\ subs' = subs \cup new
               /\ requests' = requests \cup {Request(s.kind, toString(s.url)) : s \in new}
               /\ UNCHANGED <<warned, phase>>
  /\ UNCHANGED <<fixed, toVisit, seen, files, fetchLog>>

\* a processStylesheet that takes a failed fetch for an empty stylesheet
CssFetchedIgnoringFailure(s) ==
  /\ s.kind = "css" /\ s.pc = "fetch"
  /\ SubStep(Replace(s, [s EXCEPT !.pc = "write"])
               \cup (IF FetchOk(toString(s.url)) THEN AssetSubs(s) ELSE {}))
  /\ requests' = requests \cup
       (IF FetchOk(toString(s.url))
          THEN {Request(a.kind, toString(a.url)) : a \in AssetSubs(s)} ELSE {})
  /\ UNCHANGED <<fixed, toVisit, seen, files, fetchLog>>

\* processStylesheet: fetchWithRetry(cssUrl) settles; on success the asset
\* downloads are scheduled and the write of the CSS file starts
CssFetched(s) ==
  /\ s.kind = "css" /\ s.pc = "fetch"
  /\ IF FetchOk(toString(s.url))
       THEN /\ SubStep(Replace(s, [s EXCEPT !.pc = "write"]) \cup AssetSubs(s))
            /\ requests' = requests \cup
                 {Request(a.kind, toString(a.url)) : a \in AssetSubs(s)}
       ELSE /\ SubStep(Replace(s, [s EXCEPT !.pc = "failed"]))
            /\ requests' = requests
  /\ UNCHANGED <<fixed, toVisit, seen, files, fetchLog>>

\* processStylesheet: fs.writeFile(cssPath, rewritten) settles
CssWritten(s) ==
  /\ s.kind = "css" /\ s.pc = "write"
  /\ LET cssPath == urlToLocalPath(root, s.url, outDir, <<>>) IN
       IF WriteOk(cssPath)
         THEN /\ files' = WriteFile(files, cssPath, "css", toString(s.url), CssRefs(s))
              /\ SubStep(Replace(s, [s EXCEPT !.pc = "await"]))
         ELSE /\ files' = files
              /\ SubStep(Replace(s, [s EXCEPT !.pc = "failed"]))
  /\ UNCHANGED <<fixed, toVisit, seen, fetchLog, requests>>

\* a processStylesheet that returns without awaiting its downloads
CssReturnedEarly(s) ==
  /\ s.kind = "css" /\ s.pc = "await"
  /\ SubStep(Replace(s, [s EXCEPT !.pc = "done",
                                  !.val = makeRelative(PagePath(ParseURL(s.page)),
                                            urlToLocalPath(root, s.url, outDir, <<>>))]))
  /\ UNCHANGED <<fixed, toVisit, seen, files, fetchLog, requests>>

\* processStylesheet returns once Promise.all(tasks) has resolved, and the
\* css task of rewriteAndSaveHTML sets the href
CssReturned(s) ==
  /\ s.kind = "css" /\ s.pc = "await"
  /\ \A a \in subs : a.page = s.page /\ a.kind = "asset" /\ a.parent = s.n => Settled(a)
  /\ SubStep(Replace(s, [s EXCEPT !.pc = "done",
                                  !.val = makeRelative(PagePath(ParseURL(s.page)),
                                            urlToLocalPath(root, s.url, outDir, <<>>))]))
  /\ UNCHANGED <<fixed, toVisit, seen, files, fetchLog, requests>>

\* downloadBinary(url, dest): its fetch settles; the bytes are written on
\* success, and it resolves (true or false) in every case
Downloaded(s, dest) ==
  IF FetchOk(toString(s.url)) /\ WriteOk(dest)
    THEN WriteFile(files, dest, "bin", toString(s.url), {})
    ELSE files

\* a js task that rejects when its download fails
JsDownloadedStrict(s) ==
  /\ s.kind = "js" /\ s.pc = "fetch"
  /\ LET jsPath == urlToLocalPath(root, s.url, outDir, <<".", "js">>) IN
       /\ files' = Downloaded(s, jsPath)
       /\ SubStep(Replace(s, IF FetchOk(toString(s.url)) /\ WriteOk(jsPath)
                               THEN [s EXCEPT !.pc = "done",
                                              !.val = makeRelative(PagePath(ParseURL(s.page)),
                                                                   jsPath)]
                               ELSE [s EXCEPT !.pc = "failed"]))
  /\ UNCHANGED <<fixed, toVisit, seen, fetchLog, requests>>

\* the js task of rewriteAndSaveHTML: downloadBinary settles, src is set
JsDownloaded(s) ==
  /\ s.kind = "js" /\ s.pc = "fetch"
  /\ LET jsPath == urlToLocalPath(root, s.url, outDir, <<".", "js">>) IN
       /\ files' = Downloaded(s, jsPath)
       /\ SubStep(Replace(s, [s EXCEPT !.pc = "done",
                                       !.val = makeRelative(PagePath(ParseURL(s.page)),
                                                            jsPath)]))
  /\ UNCHANGED <<fixed, toVisit, seen, fetchLog, requests>>

\* a download that marks its URL as visited
AssetDownloadedMarking(s) ==
  /\ s.kind = "asset" /\ s.pc = "fetch"
  /\ files' = Downloaded(s, urlToLocalPath(root, s.url, outDir, <<>>))
  /\ SubStep(Replace(s, [s EXCEPT !.pc = "done"]))
  /\ seen' = seen \cup {toString(s.url)}
  /\ UNCHANGED <<fixed, toVisit, fetchLog, requests>>

\* a downloadBinary scheduled by processStylesheet settles
AssetDownloaded(s) ==
  /\ s.kind = "asset" /\ s.pc = "fetch"
  /\ files' = Downloaded(s, urlToLocalPath(root, s.url, outDir, <<>>))
  /\ SubStep(Replace(s, [s EXCEPT !.pc = "done"]))
  /\ UNCHANGED <<fixed, toVisit, seen, fetchLog, requests>>

\* an img task of rewriteAndSaveHTML: getPlaceholderForImage settles (its
\* probe, and under strategy "local" with sharp the write of the PNG), and
\* src is set
ImgProbed(s) ==
  /\ s.kind = "img" /\ s.pc = "fetch"
  /\ LET key == toString(s.url)
         pagePath == PagePath(ParseURL(s.page))
         remote == PlaceholdUrl(PlaceholderSize(key))
         localPath == urlToLocalPath(root, s.url, outDir, <<".", "png">>)
     IN IF opts.placeholder = "local" /\ HasSharp
          THEN IF WriteOk(localPath)
                 THEN /\ files' = WriteFile(files, localPath, "png", key, {})
                      /\ SubStep(Replace(s, [s EXCEPT !.pc = "done",
                                                      !.val = makeRelative(pagePath, localPath)]))
                 ELSE /\ files' = files
                      /\ SubStep(Replace(s, [s EXCEPT !.pc = "failed"]))
          ELSE /\ files' = files
               /\ SubStep(Replace(s, [s EXCEPT !.pc = "done",
                      !.val = IF opts.placeholder = "local"
                                THEN makeRelative(pagePath, remote)
                                ELSE remote]))
  /\ UNCHANGED <<fixed, toVisit, seen, fetchLog, requests>>

\* rewriteAndSaveHTML: fs.writeFile(outFile) settles; processPage then
\* extracts the links of the raw HTML and pushes the unseen ones
PageWritten(i) ==
  /\ batch[i].pc = "write"
  /\ LET t == batch[i]
         key == TaskKey(t)
         doc == SiteDoc(key)
         outFile == PagePath(t.url)
         b == [batch EXCEPT ![i].pc = IF WriteOk(outFile) THEN "saved" ELSE "failed"]
     IN /\ batch' = b
        /\ subs' = Retained(subs, b)
        /\ IF WriteOk(outFile)
             THEN /\ files' = WriteFile(files, outFile, "html", key,
                                ElementRefs(subs, key, doc) \cup AnchorRefs(t.url, doc))
                  /\ toVisit' = IF ShouldExpand(t.depth)
                                  THEN toVisit \o NewItems(extractLinks(doc, t.url), 1, t.depth)
                                  ELSE toVisit
                  /\ UNCHANGED <<warned, phase>>
             ELSE /\ warned' = warned \cup {key}
                  /\ phase' = processPageCatch(phase)
                  /\ UNCHANGED <<files, toVisit>>
  /\ UNCHANGED <<fixed, seen, fetchLog, requests>>

Next ==
  \/ Seed
  \/ TakeBatch
  \/ Finish
  \/ \E i \in 1..Len(batch) : PageFetched(i)
  \/ \E s \in subs : CssFetched(s)
  \/ \E s \in subs : CssWritten(s)
  \/ \E s \in subs : CssReturned(s)
  \/ \E s \in subs : JsDownloaded(s)
  \/ \E s \in subs : AssetDownloaded(s)
  \/ \E s \in subs : ImgProbed(s)
  \/ \E i \in 1..Len(batch) : PageWritten(i)

Spec == Init /\ [][Next]_vars

\* runCLI once more on the same site with the same options, after the first
\* process has ended: the output directory is removed and crawl() starts anew
Rerun ==
  /\ phase = "done" /\ subs = {} /\ ~prevRun.done
  /\ prevRun' = [done |-> TRUE, tree |-> files]
  /\ files' = {}
  /\ phase' = "seeding"
  /\ toVisit' = <<[url |-> root, depth |-> 0]>>
  /\ seen' = {}
  /\ batch' = <<>>
  /\ fetchLog' = <<>>
  /\ warned' = {}
  /\ requests' = {}
  /\ UNCHANGED <<opts, faults, subs, call, args, result>>

SpecRerun == Init /\ [][Next \/ Rerun]_vars

\* ------------------------------------------------------------------------
\* The path mapper called on its own
\* ------------------------------------------------------------------------

\* the variables of a crawl
crawlVars == <<opts, faults, phase, toVisit, seen, batch, subs, files, fetchLog, warned,
               prevRun, requests>>

\* no crawl has been started
NoCrawl ==
  /\ opts = [maxDepth |-> 0, concurrency |-> 1, sitemap |-> FALSE,
              allowExternalAssets |-> FALSE, placeholder |-> "external"]
  /\ faults = {}
  /\ phase = "seeding"
  /\ toVisit = <<[url |-> root, depth |-> 0]>>
  /\ seen = {}
  /\ batch = <<>>
  /\ subs = {}
  /\ files = {}
  /\ fetchLog = <<>>
  /\ warned = {}
  /\ prevRun = [done |-> FALSE, tree |-> {}]
  /\ requests = {}

SegKinds == 6

\* path segments that meet every rule of the mapper: the empty segment (a
\* trailing or doubled "/"), names with and without extension, the names the
\* mapper itself appends, and the folder name of the other host
Segs ==
  << <<>>, <<"a">>, <<"a", ".", "html">>, <<"index", ".", "html">>, <<"index">>,
     safeFilename(ExtHost), <<"a", ".", "js">> >>

SegChoices == {Segs[i] : i \in 1..Min(SegKinds, Len(Segs))}

\* pathnames of one or two segments
Pathnames ==
  {<<"/">> \o a : a \in SegChoices}
    \cup {<<"/">> \o a \o <<"/">> \o b : a \in SegChoices, b \in SegChoices}

Targets ==
  {[host |-> h, pathname |-> p, search |-> <<>>, hash |-> <<>>] :
     h \in {RootHost, ExtHost}, p \in Pathnames}

\* the extension hints the callers pass (none, or ".js")
Hints == {<<>>, <<".", "js">>}

InitPath ==
  /\ args \in [a : Targets, b : Targets, hint : Hints]
  /\ result = <<>>
  /\ call = <<>>
  /\ NoCrawl

\* urlToLocalPath(root, target, outDir, extHint) for the two targets
MapTargets ==
  /\ result = <<>>
  /\ result' = << urlToLocalPath(root, args.a, outDir, args.hint),
                  urlToLocalPath(root, args.b, outDir, args.hint) >>
  /\ UNCHANGED <<crawlVars, call, args>>

SpecPath == InitPath /\ [][MapTargets]_vars

\* the pathname as the mapping rules normalize it: on the start URL's origin
\* a trailing "/" becomes "/index.html" and a pathname without extension
\* gets ".html"; on another origin a trailing "/" becomes "/index" and a
\* pathname without extension gets the hint
NormalizedPathname(u, hint) ==
  IF Origin(u) = Origin(root)
    THEN IF EndsWith(u.pathname, "/") THEN u.pathname \o <<"index", ".", "html">>
         ELSE IF ~HasExtension(u.pathname) THEN u.pathname \o <<".", "html">>
         ELSE u.pathname
    ELSE LET p == IF EndsWith(u.pathname, "/") THEN u.pathname \o <<"index">>
                  ELSE u.pathname
         IN IF HasExtension(p) THEN p ELSE p \o hint

\* C7: two targets that differ in origin or in pathname are mapped to
\* different local paths.
GlobalCollisionFreedom ==
  Len(result) = 2 =>
    ((Origin(args.a) # Origin(args.b) \/ args.a.pathname # args.b.pathname)
       => result[1] # result[2])

\* C8: two same-origin targets whose normalized pathnames differ are mapped
\* to different local paths.
SameOriginNoCollision ==
  Len(result) = 2 =>
    (( /\ Origin(args.a) = Origin(root) /\ Origin(args.b) = Origin(root)
       /\ NormalizedPathname(args.a, args.hint) # NormalizedPathname(args.b, args.hint) )
       => result[1] # result[2])

\* ------------------------------------------------------------------------
\* Properties of the crawl
\* ------------------------------------------------------------------------

\* the number of page fetches processPage started for key
FetchCount(key) == Cardinality({i \in 1..Len(fetchLog) : fetchLog[i].key = key})

\* network operations in flight: page fetches, and the fetches of the
\* stylesheet, script and CSS-asset sub-tasks
NetOps ==
  Cardinality({i \in 1..Len(batch) : batch[i].pc = "fetch"})
    + Cardinality({s \in subs : s.pc = "fetch"})

\* C1: for every canonical URL, processPage starts the page fetch at most
\* once in a run, however often the URL sits in the frontier.
VisitedOnce == \A e \in {fetchLog[i] : i \in 1..Len(fetchLog)} : FetchCount(e.key) <= 1

\* a URL that two pages enqueued before either copy was dequeued: both
\* copies are in one batch, the first is fetched, the second skipped
VisitedOnceWitness ==
  \E i \in 1..Len(batch) :
    /\ batch[i].pc = "skipped"
    /\ FetchCount(TaskKey(batch[i])) = 1
    /\ \E j \in 1..Len(batch) : j < i /\ TaskKey(batch[j]) = TaskKey(batch[i])

\* C2: no frontier item deeper than maxDepth is ever fetched.
DepthBound == \A i \in 1..Len(fetchLog) : fetchLog[i].depth <= opts.maxDepth

\* C3: the network operations in flight never exceed the configured
\* concurrency.
PeakConcurrency == NetOps <= opts.concurrency

\* a step in which the page task i fails
TaskFails(i) ==
  /\ i <= Len(batch') /\ ~Resolved(batch[i].pc) /\ batch'[i].pc = "failed"

\* C4: a failure while processing one item never makes crawl() reject, leaves
\* the other tasks of the batch and the frontier as they are, and crawl()
\* still ends only with the frontier drained.
ErrorIsolation ==
  /\ [](phase # "rejected")
  /\ [][\A i \in 1..Len(batch) :
          TaskFails(i) =>
            /\ \A j \in 1..Len(batch) : j # i => batch'[j] = batch[j]
            /\ toVisit' = toVisit /\ seen' = seen /\ phase' = phase]_vars
  /\ [](phase = "done" => Len(toVisit) = 0 /\ BatchResolved)

\* one task of a batch failed, another of the same batch was saved, and the
\* next batch is waiting
ErrorIsolationWitness ==
  /\ phase = "draining" /\ BatchResolved /\ Len(toVisit) > 0
  /\ \E i, j \in 1..Len(batch) : batch[i].pc = "failed" /\ batch[j].pc = "saved"
  /\ warned # {}

\* C10: the same-origin links of a page fetched as HTML below maxDepth are
\* enqueued at depth + 1 even when its rewrite fails.
DiscoveryDespiteRewriteFailure ==
  \A i \in 1..Len(batch) :
    LET t == batch[i] IN
      ( /\ t.pc = "failed"
        /\ FetchOk(TaskKey(t)) /\ IncludesHtml(ContentType(TaskKey(t)))
        /\ ShouldExpand(t.depth) )
      => \A k \in 1..Len(extractLinks(SiteDoc(TaskKey(t)), t.url)) :
           LET link == extractLinks(SiteDoc(TaskKey(t)), t.url)[k] IN
             \/ AlreadySeen(CanonicalKey(link), seen)
             \/ InSeq([url |-> link, depth |-> t.depth + 1], toVisit)

Range(sq) == {sq[i] : i \in 1..Len(sq)}

\* the canonical URLs of the same-origin links of the page behind key
LinkKeys(key) ==
  {CanonicalKey(l) : l \in Range(extractLinks(SiteDoc(key), ParseURL(key)))}

\* the pages at most d links away from the start URL
RECURSIVE ReachableWithin(_)
ReachableWithin(d) ==
  IF d = 0 THEN {CanonicalKey(root)}
  ELSE LET r == ReachableWithin(d - 1) IN r \cup UNION {LinkKeys(k) : k \in r}

Saved(key) == \E f \in files : f.kind = "html" /\ f.src = key

\* C5: when every fetch succeeds with HTML, a finished run has fetched and
\* saved every page at most maxDepth links away from the start URL.
Completeness ==
  (phase = "done" /\ faults = {})
    => \A k \in ReachableWithin(opts.maxDepth) : FetchCount(k) = 1 /\ Saved(k)

\* C6: a second run on the same site with the same options leaves the same
\* files with the same contents as the first.
DeterministicOutput ==
  (phase = "done" /\ subs = {} /\ prevRun.done) => files = prevRun.tree

\* the file a reference of the saved file f points at exists
Resolves(f, r) == pathResolve(pathDirname(f.path), r.val) \in Paths(files)

\* C9: when the run is done, every rewritten anchor href, stylesheet href and
\* script src of every saved page resolves to a file of the output tree.
NoDanglingReferences ==
  phase = "done" =>
    \A f \in files : f.kind = "html" =>
      \A r \in f.refs : (r.rewritten /\ r.tag \in {"a", "link", "script"}) => Resolves(f, r)

\* ------------------------------------------------------------------------
\* network/fetch.ts: fetchWithRetry and downloadBinary called on their own
\* ------------------------------------------------------------------------

MaxTries == 3

\* the defaults of fetchWithRetry
DefaultTries == 3
DefaultBackoffMs == 400

\* what a call on its own leaves alone
idle == <<crawlVars, args, result>>

\* one attempt: a 2xx response, a response that is not ok, a rejected fetch
Outcomes == {"ok", "http", "neterr"}

\* Math.floor(Math.random() * Math.max(1, requestDelayMs * 0.2)), for a
\* delay that is a multiple of 5
Jitters(delayMs) == 0..((IF delayMs \div 5 < 1 THEN 1 ELSE delayMs \div 5) - 1)

\* a backoff that does not grow
BackoffConstant(backoffMs, i) == backoffMs

\* backoffMs * 2 ** i
Backoff(backoffMs, i) == backoffMs * 2^i

\* a backoff after every failure
ShouldBackoffAlways(i, tries) == TRUE

\* i < tries - 1
ShouldBackoff(i, tries) == i < tries - 1

\* the frame of fetchWithRetry(url, tries, backoffMs) with requestDelayMs =
\* delayMs; dl is the frame of the downloadBinary that called it, if one did
FetchFrame(fn, pc, tries, backoffMs, delayMs, silent) ==
  [fn |-> fn, pc |-> pc, tries |-> tries, backoffMs |-> backoffMs, delayMs |-> delayMs,
   i |-> 0, attempts |-> <<>>, waits |-> <<>>,
   lastErr |-> [kind |-> "undefined", attempt |-> 0], res |-> 0,
   silent |-> silent, written |-> FALSE, warned |-> FALSE, ret |-> "none"]

InitFetch ==
  /\ call \in
       { FetchFrame("fetchWithRetry", "loop", n, b, d, FALSE) :
           n \in 0..MaxTries, b \in {100, DefaultBackoffMs}, d \in {0, 10} }
       \cup
       { FetchFrame("downloadBinary", "ensureDir", DefaultTries, DefaultBackoffMs, d, s) :
           d \in {0, 10}, s \in BOOLEAN }
  /\ NoCrawl
  /\ args = <<>>
  /\ result = <<>>

\* fetchWithRetry: one turn of the for loop
Attempt(outcome, jitter) ==
  /\ call.pc = "loop" /\ call.i < call.tries
  /\ LET w == IF call.delayMs > 0
                THEN Append(call.waits, [why |-> "delay", ms |-> call.delayMs + jitter])
                ELSE call.waits
     IN call' =
          IF outcome = "ok"
            THEN [call EXCEPT !.pc = "resolved", !.res = call.i, !.waits = w,
                              !.attempts = Append(@, outcome)]
            ELSE [call EXCEPT !.i = @ + 1,
                              !.attempts = Append(@, outcome),
                              !.lastErr = [kind |-> outcome, attempt |-> call.i],
                              !.waits = IF ShouldBackoff(call.i, call.tries)
                                          THEN Append(w, [why |-> "backoff",
                                                 ms |-> Backoff(call.backoffMs, call.i)])
                                          ELSE w]
  /\ UNCHANGED idle

\* fetchWithRetry: the loop is over, throw lastErr
GiveUp ==
  /\ call.pc = "loop" /\ call.i >= call.tries
  /\ call' = [call EXCEPT !.pc = "rejected"]
  /\ UNCHANGED idle

\* a downloadBinary without its catch
downloadBinaryRethrow(c) == [c EXCEPT !.pc = "threw"]

\* the catch of downloadBinary: warn unless silent, return false
downloadBinaryCatch(c) ==
  [c EXCEPT !.pc = "returned", !.ret = "false", !.warned = ~c.silent]

\* downloadBinary: ensureDir(dest.substring(0, dest.lastIndexOf("/"))) settles
DlEnsureDir(ok) ==
  /\ call.fn = "downloadBinary" /\ call.pc = "ensureDir"
  /\ call' = IF ok THEN [call EXCEPT !.pc = "loop"] ELSE downloadBinaryCatch(call)
  /\ UNCHANGED idle

\* downloadBinary: fetchWithRetry rejected
DlFetchFailed ==
  /\ call.fn = "downloadBinary" /\ call.pc = "rejected"
  /\ call' = downloadBinaryCatch(call)
  /\ UNCHANGED idle

\* downloadBinary: res.arrayBuffer() settles
DlBody(ok) ==
  /\ call.fn = "downloadBinary" /\ call.pc = "resolved"
  /\ call' = IF ok THEN [call EXCEPT !.pc = "write"] ELSE downloadBinaryCatch(call)
  /\ UNCHANGED idle

\* downloadBinary: fs.writeFile(dest, buf) settles
DlWrite(ok) ==
  /\ call.fn = "downloadBinary" /\ call.pc = "write"
  /\ call' = IF ok THEN [call EXCEPT !.pc = "returned", !.ret = "true", !.written = TRUE]
             ELSE downloadBinaryCatch(call)
  /\ UNCHANGED idle

NextFetch ==
  \/ \E o \in Outcomes : \E j \in Jitters(call.delayMs) : Attempt(o, j)
  \/ GiveUp
  \/ \E ok \in BOOLEAN : DlEnsureDir(ok)
  \/ DlFetchFailed
  \/ \E ok \in BOOLEAN : DlBody(ok)
  \/ \E ok \in BOOLEAN : DlWrite(ok)

SpecFetch == InitFetch /\ [][NextFetch]_vars

\* the backoff waits of the call so far
BackoffWaits == SelectSeq(call.waits, LAMBDA w : w.why = "backoff")

\* C13: with no inter-request delay, a call whose first two attempts fail and
\* whose third succeeds returns the third response after waiting backoffMs
\* and then backoffMs * 2, and nothing else.
RetryBackoffSequence ==
  ( /\ call.delayMs = 0
    /\ Len(call.attempts) = 3
    /\ call.attempts[1] # "ok" /\ call.attempts[2] # "ok" /\ call.attempts[3] = "ok" )
  => /\ call.pc \in {"resolved", "write", "returned"}
     /\ call.res = 2
     /\ call.waits = << [why |-> "backoff", ms |-> call.backoffMs],
                        [why |-> "backoff", ms |-> call.backoffMs * 2] >>

\* a network error, then a response that is not ok, then a 2xx response
RetryBackoffWitness ==
  /\ call.fn = "fetchWithRetry" /\ call.delayMs = 0 /\ call.pc = "resolved"
  /\ call.attempts = <<"neterr", "http", "ok">>

\* C14: with tries >= 1 there are at most tries attempts, none after a 2xx
\* response, a response that is not ok counts as a failure like a network
\* error, no backoff follows the last failure, and after tries failures the
\* call fails with the error of the last attempt.
RetryBound ==
  call.tries >= 1 =>
    /\ Len(call.attempts) <= call.tries
    /\ \A k \in 1..(Len(call.attempts) - 1) : call.attempts[k] # "ok"
    /\ LET failures == Cardinality({k \in 1..Len(call.attempts) : call.attempts[k] # "ok"})
       IN /\ Len(BackoffWaits) = (IF failures < call.tries THEN failures ELSE call.tries - 1)
          /\ \A k \in 1..Len(BackoffWaits) :
               BackoffWaits[k].ms = Backoff(call.backoffMs, k - 1)
    /\ (Len(call.attempts) > 0 /\ Last(call.attempts) = "ok")
         => (call.pc # "loop" /\ call.pc # "rejected" /\ call.res = Len(call.attempts) - 1)
    /\ call.pc = "rejected" =>
         /\ Len(call.attempts) = call.tries
         /\ \A k \in 1..call.tries : call.attempts[k] # "ok"
         /\ call.lastErr = [kind |-> call.attempts[call.tries], attempt |-> call.tries - 1]

\* two attempts allowed, both failed in different ways: one backoff, and the
\* error of the second attempt is thrown
RetryBoundWitness ==
  /\ call.fn = "fetchWithRetry" /\ call.tries = 2 /\ call.pc = "rejected"
  /\ call.attempts = <<"http", "neterr">>
  /\ Len(BackoffWaits) = 1
  /\ call.lastErr.kind = "neterr"

\* C15: downloadBinary never throws, and returns true exactly when the bytes
\* were written to dest, silent or not.
DownloadNeverThrows ==
  call.fn = "downloadBinary" =>
    /\ call.pc # "threw"
    /\ call.pc = "returned" => (call.ret = "true" <=> call.written)
    /\ call.pc # "returned" => (call.ret = "none" /\ ~call.written)
    /\ call.warned => (~call.silent /\ call.ret = "false")

\* a silent download whose fetch failed three times returned false
DownloadNeverThrowsWitness ==
  /\ call.fn = "downloadBinary" /\ call.pc = "returned"
  /\ call.silent /\ call.ret = "false" /\ ~call.written
  /\ Len(call.attempts) = DefaultTries

\* ------------------------------------------------------------------------
\* parsers/sitemap.ts: discoverFromSitemap called on its own
\* ------------------------------------------------------------------------

\* the two candidates, in the order of the array
Candidates == << PSitemap, PSitemapIndex >>

\* what a candidate answers: nothing (404 on every try), a network error, a
\* body that cannot be read, or a text with its <loc> values (there may be none)
CandidateAnswers ==
  { [state |-> s, locs |-> <<>>] : s \in {"missing", "neterr", "unreadable"} }
  \cup { [state |-> "ok", locs |-> l] : l \in {<<>>, <<"u1">>, <<"u2", "u3">>} }

InitSitemap ==
  /\ call \in { [fn |-> "discoverFromSitemap", pc |-> "enter", session |-> s,
                 answers |-> a, i |-> 1, probed |-> <<>>, found |-> <<>>] :
                s \in BOOLEAN, a \in [1..Len(Candidates) -> CandidateAnswers] }
  /\ NoCrawl
  /\ args = <<>>
  /\ result = <<>>

\* if (hasBrowserSession()) return []
SitemapEnter ==
  /\ call.fn = "discoverFromSitemap" /\ call.pc = "enter"
  /\ call' = IF call.session THEN [call EXCEPT !.pc = "returned"]
             ELSE [call EXCEPT !.pc = "loop"]
  /\ UNCHANGED idle

\* a candidate whose failure ends the call
SitemapCatchRethrow(c) == [c EXCEPT !.pc = "rejected"]

\* catch { /* ignore missing sitemaps */ }
SitemapCatch(c) == [c EXCEPT !.i = @ + 1]

\* one turn of the for loop: fetchWithRetry, res.text(), the <loc> scan
SitemapProbe ==
  /\ call.fn = "discoverFromSitemap" /\ call.pc = "loop" /\ call.i <= Len(Candidates)
  /\ LET a == call.answers[call.i]
         c == [call EXCEPT !.probed = Append(@, Candidates[call.i])]
     IN call' = IF a.state = "ok"
                  THEN [c EXCEPT !.i = @ + 1,
                                 !.found = IF Len(a.locs) > 0 THEN @ \o a.locs ELSE @]
                  ELSE SitemapCatch(c)
  /\ UNCHANGED idle

\* return found
SitemapReturn ==
  /\ call.fn = "discoverFromSitemap" /\ call.pc = "loop" /\ call.i > Len(Candidates)
  /\ call' = [call EXCEPT !.pc = "returned"]
  /\ UNCHANGED idle

NextSitemap == SitemapEnter \/ SitemapProbe \/ SitemapReturn

SpecSitemap == InitSitemap /\ [][NextSitemap]_vars

\* the <loc> values of a candidate that could be read
ReadableLocs(k) == IF call.answers[k].state = "ok" THEN call.answers[k].locs ELSE <<>>

\* C16 as stated: the call never fails, probes /sitemap.xml and then
\* /sitemap_index.xml whatever the first one answered, and returns the
\* concatenation of the <loc> values of the candidates that could be read.
SitemapNeverFails ==
  /\ call.pc # "rejected"
  /\ call.pc = "returned" =>
       /\ call.probed = Candidates
       /\ call.found = ReadableLocs(1) \o ReadableLocs(2)

\* C16: the call never fails; with a browser session active it returns the
\* empty list without probing; otherwise it probes /sitemap.xml and then
\* /sitemap_index.xml whatever the first one answered, and returns the
\* concatenation of the <loc> values of the candidates that could be read.
SitemapNeverFailsUnlessSkipped ==
  /\ call.pc # "rejected"
  /\ call.pc = "returned" =>
       IF call.session
         THEN call.probed = <<>> /\ call.found = <<>>
         ELSE /\ call.probed = Candidates
              /\ call.found = ReadableLocs(1) \o ReadableLocs(2)

\* /sitemap.xml failed with a network error and /sitemap_index.xml was
\* still probed and its <loc> values returned
SitemapNeverFailsWitness ==
  /\ call.pc = "returned" /\ ~call.session
  /\ call.answers[1].state = "neterr"
  /\ call.answers[2].state = "ok" /\ Len(call.answers[2].locs) = 2
  /\ call.found = call.answers[2].locs

\* ------------------------------------------------------------------------
\* cli.ts and network/challenge.ts: one run of the command line
\* ------------------------------------------------------------------------

\* argv._[0]: missing, not a URL, the start URL, a URL whose host is "_"
StartArgs == { <<>>, RootHost, startUrl, Scheme \o <<"_", "/">> }

InitCLI ==
  /\ call \in { [fn |-> "runCLI", pc |-> "args", start |-> s, concurrency |-> c,
                 browser |-> FALSE, page |-> FALSE, launched |-> FALSE,
                 cleanups |-> 0, crawled |-> "no", stderr |-> "none",
                 status |-> 0, net |-> FALSE, dirs |-> {}, given |-> c] :
                s \in StartArgs, c \in 1..MaxConcurrency }
  /\ NoCrawl
  /\ args = <<>>
  /\ result = <<>>

\* process.exit(1), called by runCLI after console.error(msg) or by the
\* catch of index.ts after console.error(err)
Exit(c, msg) == [c EXCEPT !.pc = "exited", !.stderr = msg, !.status = 1]

\* closeBrowser(); closed is whether sharedBrowser.close() resolved
closeBrowser(c, closed) ==
  [c EXCEPT !.page = FALSE, !.browser = c.browser /\ ~closed]

\* solveChallenge(url) as far as it gets: the existing browser cannot be
\* closed, launch fails, newPage fails, goto or the wait fails, or it returns
solveChallenge(c, outcome) ==
  IF outcome = "close" /\ c.browser THEN closeBrowser(c, FALSE)
  ELSE IF outcome = "launch" THEN closeBrowser(c, TRUE)
  ELSE [c EXCEPT !.browser = TRUE, !.launched = TRUE, !.page = (outcome # "newPage")]

SolveOutcomes == {"close", "launch", "newPage", "goto", "solved"}

\* a start-up that sends the test request before it looks at the argument
CliParseLate ==
  /\ call.fn = "runCLI" /\ call.pc = "args"
  /\ call' = IF Len(call.start) = 0 THEN Exit([call EXCEPT !.net = TRUE], "Usage")
             ELSE IF IsInvalidURL(call.start)
               THEN Exit([call EXCEPT !.net = TRUE], "Invalid URL provided")
             ELSE [call EXCEPT !.pc = "test"]
  /\ UNCHANGED idle

\* the usage check and new URL(String(start))
CliParse ==
  /\ call.fn = "runCLI" /\ call.pc = "args"
  /\ call' = IF Len(call.start) = 0 THEN Exit(call, "Usage")
             ELSE IF IsInvalidURL(call.start) THEN Exit(call, "Invalid URL provided")
             ELSE [call EXCEPT !.pc = "test"]
  /\ UNCHANGED idle

\* the test request: no challenge, a challenge page, or a failed request
CliTest(answer) ==
  /\ call.fn = "runCLI" /\ call.pc = "test"
  /\ call' = [call EXCEPT !.net = TRUE,
                           !.pc = CASE answer = "plain" -> "name"
                                   [] answer = "challenge" -> "solve"
                                   [] OTHER -> "retry"]
  /\ UNCHANGED idle

\* solveChallenge in the try; a throw goes to the catch
CliSolve(outcome) ==
  /\ call.fn = "runCLI" /\ call.pc = "solve"
  /\ call' = [solveChallenge(call, outcome) EXCEPT
                !.pc = IF outcome = "solved" THEN "name" ELSE "retry"]
  /\ UNCHANGED idle

\* solveChallenge in the catch; a throw is only warned about
CliSolveAnyway(outcome) ==
  /\ call.fn = "runCLI" /\ call.pc = "retry"
  /\ call' = [solveChallenge(call, outcome) EXCEPT !.pc = "name"]
  /\ UNCHANGED idle

\* requestedOut = safeFilename(startUrl.host), exit(1) when it is empty
CliName ==
  /\ call.fn = "runCLI" /\ call.pc = "name"
  /\ call' = IF Len(safeFilename(ParseURL(call.start).host)) = 0
               THEN Exit(call, "Unable to derive output directory name")
               ELSE [call EXCEPT !.pc = "mkbase"]
  /\ UNCHANGED idle

\* a start-up that passes --concurrency on as it was given
CliPrepareUnforced(ok) ==
  /\ call.fn = "runCLI" /\ call.pc \in {"mkbase", "rm", "mkout"}
  /\ call' =
       IF ~ok THEN Exit(call, call.pc)
       ELSE CASE call.pc = "mkbase" -> [call EXCEPT !.pc = "rm", !.dirs = @ \cup {"mkbase"}]
              [] call.pc = "rm" -> [call EXCEPT !.pc = "mkout", !.dirs = @ \cup {"rm"}]
              [] OTHER -> [call EXCEPT !.pc = "crawl", !.dirs = @ \cup {"mkout"}]
  /\ UNCHANGED idle

\* ensureDir(baseOutput), the concurrency of a browser session,
\* fs.rm(outDir), ensureDir(outDir): each may reject, which ends runCLI
CliPrepare(ok) ==
  /\ call.fn = "runCLI" /\ call.pc \in {"mkbase", "rm", "mkout"}
  /\ call' =
       IF ~ok THEN Exit(call, call.pc)
       ELSE CASE call.pc = "mkbase" ->
                   [call EXCEPT !.pc = "rm", !.dirs = @ \cup {"mkbase"},
                                !.concurrency = IF call.page /\ @ > 1 THEN 1 ELSE @]
              [] call.pc = "rm" -> [call EXCEPT !.pc = "mkout", !.dirs = @ \cup {"rm"}]
              [] OTHER -> [call EXCEPT !.pc = "crawl", !.dirs = @ \cup {"mkout"}]
  /\ UNCHANGED idle

\* try { await crawl(...) }
CliCrawl(ok) ==
  /\ call.fn = "runCLI" /\ call.pc = "crawl"
  /\ call' = [call EXCEPT !.pc = "finally", !.crawled = IF ok THEN "resolved" ELSE "rejected"]
  /\ UNCHANGED idle

\* finally { await closeBrowser() }
CliFinally(closed) ==
  /\ call.fn = "runCLI" /\ call.pc = "finally"
  /\ LET c == [closeBrowser(call, closed) EXCEPT !.cleanups = @ + 1]
     IN call' = IF call.browser /\ ~closed THEN Exit(c, "close")
                ELSE IF call.crawled = "rejected" THEN Exit(c, "crawl")
                ELSE [c EXCEPT !.pc = "done"]
  /\ UNCHANGED idle

NextCLI ==
  \/ CliParse
  \/ \E a \in {"plain", "challenge", "failed"} : CliTest(a)
  \/ \E o \in SolveOutcomes : CliSolve(o)
  \/ \E o \in SolveOutcomes : CliSolveAnyway(o)
  \/ CliName
  \/ \E ok \in BOOLEAN : CliPrepare(ok)
  \/ \E ok \in BOOLEAN : CliCrawl(ok)
  \/ \E closed \in BOOLEAN : CliFinally(closed)

SpecCLI == InitCLI /\ [][NextCLI]_vars

\* ------------------------------------------------------------------------
\* cli.ts with crawler.ts: the crawl as runCLI starts it
\* ------------------------------------------------------------------------

\* runCLI calls crawl(startUrl.toString(), outDir, {...}) with maxDepth 2
\* when --maxDepth is not given, the concurrency it computed, the flag
\* --sitemap; the browser session solveChallenge left is still there
CliStartCrawl(sitemap) ==
  /\ call.fn = "runCLI" /\ call.pc = "crawl"
  /\ call' = [call EXCEPT !.pc = "crawling"]
  /\ opts' = [maxDepth |-> 2, concurrency |-> call.concurrency, sitemap |-> sitemap,
              allowExternalAssets |-> FALSE, placeholder |-> "external"]
  /\ faults' = IF call.page THEN {BrowserSession} ELSE {}
  /\ UNCHANGED <<phase, toVisit, seen, batch, subs, files, fetchLog, warned,
                 prevRun, requests, args, result>>

\* a step of the crawl runCLI awaits
CliCrawlStep == call.fn = "runCLI" /\ call.pc = "crawling" /\ Next

\* crawl() resolved: runCLI goes on to its finally
CliEndCrawl ==
  /\ call.fn = "runCLI" /\ call.pc = "crawling" /\ phase = "done"
  /\ call' = [call EXCEPT !.pc = "finally", !.crawled = "resolved"]
  /\ UNCHANGED idle

NextSession ==
  \/ CliParse
  \/ \E a \in {"plain", "challenge", "failed"} : CliTest(a)
  \/ \E o \in SolveOutcomes : CliSolve(o)
  \/ \E o \in SolveOutcomes : CliSolveAnyway(o)
  \/ CliName
  \/ \E ok \in BOOLEAN : CliPrepare(ok)
  \/ \E sitemap \in BOOLEAN : CliStartCrawl(sitemap)
  \/ CliCrawlStep
  \/ CliEndCrawl
  \/ \E closed \in BOOLEAN : CliFinally(closed)

SpecSession == InitCLI /\ [][NextSession]_vars

\* C20: when the process ends after solveChallenge opened a browser, runCLI
\* has executed its closeBrowser exactly once, whether the crawl completed,
\* the crawl threw, or a startup step after the challenge failed.
SessionCleanup ==
  (call.pc \in {"done", "exited"} /\ call.launched) => call.cleanups = 1

\* ------------------------------------------------------------------------
\* Properties of the rewriters
\* ------------------------------------------------------------------------

\* the URL is of another origin than the start URL
IsExternal(url) == Origin(url) # Origin(root)

\* the saved pages
SavedPages == {f \in files : f.kind = "html"}

\* C11: with allowExternalAssets off, no fetch is issued for a cross-origin
\* stylesheet or script, and the saved page keeps its href or src as it was.
ExternalLinksUntouched ==
  ~opts.allowExternalAssets =>
    /\ \A r \in requests : r.by \in {"css", "js"} => ~IsExternal(ParseURL(r.key))
    /\ \A f \in SavedPages : \A r \in f.refs :
         ( /\ r.tag \in {"link", "script"}
           /\ ~IsInvalidRef(r.orig)
           /\ IsExternal(ResolveRef(r.orig, ParseURL(f.src))) )
         => (r.val = r.orig /\ ~r.rewritten)

\* a page with a cross-origin stylesheet and a cross-origin script was saved
\* with allowExternalAssets off
ExternalLinksUntouchedWitness ==
  /\ ~opts.allowExternalAssets
  /\ \E f \in SavedPages :
       /\ \E r \in f.refs : r.tag = "link" /\ IsExternal(ResolveRef(r.orig, ParseURL(f.src)))
       /\ \E r \in f.refs : r.tag = "script" /\ IsExternal(ResolveRef(r.orig, ParseURL(f.src)))

\* C12: with allowExternalAssets off, no fetch is issued to a URL of another
\* origin, whatever the pages reference.
NoExternalFetch ==
  ~opts.allowExternalAssets =>
    \A r \in requests : ~IsExternal(ParseURL(r.key))

\* C12 as amended: with allowExternalAssets off, the only fetches to another
\* origin are the dimension probes of images.
OnlyImageProbesAreExternal ==
  ~opts.allowExternalAssets =>
    \A r \in requests : IsExternal(ParseURL(r.key)) => r.by = "img"

\* with allowExternalAssets off, a run probed a cross-origin image and wrote a
\* stylesheet whose cross-origin url() was left as it was
OnlyImageProbesWitness ==
  /\ ~opts.allowExternalAssets
  /\ phase = "done"
  /\ \E r \in requests : r.by = "img" /\ IsExternal(ParseURL(r.key))
  /\ \E f \in files : f.kind = "css" /\ \E r \in f.refs : ~r.rewritten /\ r.val = r.orig

\* the URL strings of the stylesheets a document links and the policy lets
\* through
LinkedStylesheets(doc, pageUrl) ==
  { toString(ResolveRef(doc.styles[n], pageUrl)) :
      n \in { m \in 1..Len(doc.styles) :
                /\ ~IsInvalidRef(doc.styles[m])
                /\ Downloadable(ResolveRef(doc.styles[m], pageUrl)) } }

\* the URL strings of the url() arguments of a stylesheet
CssAssetKeys(cssKey) ==
  { toString(ResolveRef(CssUrls(cssKey)[n], ParseURL(cssKey))) :
      n \in { m \in 1..Len(CssUrls(cssKey)) : ~IsInvalidRef(CssUrls(cssKey)[m]) } }

\* the url() downloads scheduled by the stylesheet task s
AssetsOf(s) == {a \in subs : a.kind = "asset" /\ a.page = s.page /\ a.parent = s.n}

\* C17: a stylesheet whose fetch fails after all retries makes
\* processStylesheet fail: no CSS file is written, no asset download is
\* scheduled, and the failure reaches the page that links it.
StylesheetFailureNotSilent ==
  \A r \in requests :
    (r.by = "css" /\ ~FetchOk(r.key)) =>
      /\ urlToLocalPath(root, ParseURL(r.key), outDir, <<>>) \notin Paths(files)
      /\ \A q \in requests : q.by = "asset" => q.key \notin CssAssetKeys(r.key)
      /\ \A s \in subs : (s.kind = "css" /\ toString(s.url) = r.key)
                           => s.pc \in {"fetch", "failed"}
      /\ \A i \in 1..Len(batch) :
           ( /\ batch[i].pc \in {"rewrite", "write", "saved"}
             /\ r.key \in LinkedStylesheets(SiteDoc(TaskKey(batch[i])), batch[i].url) )
           => batch[i].pc = "rewrite"
      /\ \A f \in SavedPages : r.key \notin LinkedStylesheets(SiteDoc(f.src), ParseURL(f.src))

\* the fetch of a linked stylesheet failed and the page that links it was
\* skipped with a warning
StylesheetFailureWitness ==
  \E r \in requests : \E i \in 1..Len(batch) :
    /\ r.by = "css" /\ ~FetchOk(r.key)
    /\ r.key \in LinkedStylesheets(SiteDoc(TaskKey(batch[i])), batch[i].url)
    /\ batch[i].pc = "failed"
    /\ TaskKey(batch[i]) \in warned

\* the page task failed for a reason other than a url() download
HasFatalCause(t) ==
  \/ ~FetchOk(TaskKey(t))
  \/ ~WriteOk(PagePath(t.url))
  \/ \E k \in LinkedStylesheets(SiteDoc(TaskKey(t)), t.url) :
       ~FetchOk(k) \/ ~WriteOk(urlToLocalPath(root, ParseURL(k), outDir, <<>>))
  \/ \E n \in 1..Len(SiteDoc(TaskKey(t)).images) :
       /\ opts.placeholder = "local" /\ HasSharp
       /\ ~WriteOk(urlToLocalPath(root, ResolveRef(SiteDoc(TaskKey(t)).images[n], t.url),
                                  outDir, <<".", "png">>))

\* C18: processStylesheet has written the CSS file when it starts to await
\* its downloads, returns only when every one of them has settled, and a
\* failed download does not make it fail.
StylesheetWriteOrdering ==
  /\ \A s \in subs : s.kind = "css" =>
       /\ s.pc \in {"await", "done"}
            => urlToLocalPath(root, s.url, outDir, <<>>) \in Paths(files)
       /\ s.pc = "done" => \A a \in AssetsOf(s) : Settled(a)
  /\ \A i \in 1..Len(batch) : batch[i].pc = "failed" => HasFatalCause(batch[i])

\* the CSS file is written while one of its downloads is still in flight and
\* another has already failed
StylesheetWriteOrderingWitness ==
  \E s \in subs :
    /\ s.kind = "css" /\ s.pc = "await"
    /\ urlToLocalPath(root, s.url, outDir, <<>>) \in Paths(files)
    /\ \E a \in AssetsOf(s) : a.pc = "fetch"
    /\ \E a \in AssetsOf(s) :
         /\ Settled(a) /\ ~FetchOk(toString(a.url))
         /\ urlToLocalPath(root, a.url, outDir, <<>>) \notin Paths(files)

\* C19: the HTML file of a page exists only when every sub-task of its
\* rewrite has completed, and it holds what the sub-tasks set.
DocumentWrittenLast ==
  /\ \A i \in 1..Len(batch) :
       batch[i].pc \in {"write", "saved"} =>
         \A s \in subs : s.page = TaskKey(batch[i]) => s.pc = "done"
  /\ \A f \in SavedPages :
       /\ \A s \in subs : s.page = f.src => s.pc = "done"
       /\ \A r \in f.refs :
            ( \/ r.tag = "img" /\ ~IsInvalidRef(r.orig)
              \/ /\ r.tag \in {"link", "script"} /\ ~IsInvalidRef(r.orig)
                 /\ Downloadable(ResolveRef(r.orig, ParseURL(f.src))) )
            => r.rewritten

\* a page with a stylesheet, a script and an image was saved, each of them
\* rewritten
DocumentWrittenLastWitness ==
  \E f \in SavedPages :
    /\ \E r \in f.refs : r.tag = "link" /\ r.rewritten
    /\ \E r \in f.refs : r.tag = "script" /\ r.rewritten
    /\ \E r \in f.refs : r.tag = "img" /\ r.rewritten

\* the URL an <img> of the saved page f was resolved to
ImgKey(f, r) == toString(ResolveRef(r.orig, ParseURL(f.src)))

\* C21: under strategy "local" without sharp every processed <img> of a
\* saved page has the placehold.co URL of its size as src, as under
\* strategy "external".
LocalFallsBackToExternal ==
  (opts.placeholder = "local" /\ ~HasSharp) =>
    \A f \in SavedPages : \A r \in f.refs :
      (r.tag = "img" /\ r.rewritten) => r.val = PlaceholdUrl(PlaceholderSize(ImgKey(f, r)))

\* ------------------------------------------------------------------------
\* utils/url.ts: makeRelative between two mapped paths
\* ------------------------------------------------------------------------

\* path segments for the references between files: folders, files, the
\* empty segment and a segment that starts with a dot
RelSegs ==
  { <<>>, <<"blog">>, <<"assets">>, <<"post", ".", "html">>, <<"app", ".", "css">>,
    <<".", "well", "-", "known">> }

\* the referencing document (with or without query and fragment) and the
\* file it refers to
RelTargets(searches) ==
  {[host |-> h, pathname |-> p, search |-> s, hash |-> s] :
     h \in {RootHost, ExtHost}, s \in searches,
     p \in {<<"/">> \o a : a \in RelSegs}
             \cup {<<"/">> \o a \o <<"/">> \o b : a \in RelSegs, b \in RelSegs}}

InitRelative ==
  /\ args \in [a : RelTargets({<<>>, <<"q">>}), b : RelTargets({<<>>}), hint : Hints]
  /\ result = <<>>
  /\ call = <<>>
  /\ NoCrawl

\* makeRelative(fromFile, toFile) for the two mapped paths
Relate ==
  /\ Len(result) = 2
  /\ result' = Append(result, makeRelative(result[1], result[2]))
  /\ UNCHANGED <<crawlVars, call, args>>

NextRelative == MapTargets \/ Relate

SpecRelative == InitRelative /\ [][NextRelative]_vars

\* C22: every value makeRelative produces begins with "./" or "../".
RelativeForm ==
  Len(result) = 3 =>
    \/ SubSeq(result[3], 1, 2) = <<".", "/">>
    \/ SubSeq(result[3], 1, 3) = <<".", ".", "/">>

\* C23: resolving makeRelative(from, to) against the directory of from
\* yields to, and /blog/post.html refers to /assets/app.css as
\* ../assets/app.css.
RelativeRoundTrip ==
  Len(result) = 3 =>
    /\ pathResolve(pathDirname(result[1]), result[3]) = result[2]
    /\ ( /\ result[1] = outDir \o <<"/", "blog", "/", "post", ".", "html">>
         /\ result[2] = outDir \o <<"/", "assets", "/", "app", ".", "css">> )
       => result[3] = <<".", ".", "/", "assets", "/", "app", ".", "css">>

\* the page /blog/post.html referred to the stylesheet /assets/app.css
RelativeRoundTripWitness ==
  /\ Len(result) = 3
  /\ result[1] = outDir \o <<"/", "blog", "/", "post", ".", "html">>
  /\ result[2] = outDir \o <<"/", "assets", "/", "app", ".", "css">>

\* C24: a same-origin target is mapped to outDir joined with its pathname,
\* with "index.html" appended to a pathname ending in "/", ".html" appended
\* to a pathname without extension, and any other pathname kept; the query
\* string and the fragment do not appear in the result.
SameOriginMappingRule ==
  \A k \in 1..Len(result) :
    LET u == IF k = 1 THEN args.a ELSE args.b IN
      (k <= 2 /\ Origin(u) = Origin(root)) =>
        /\ result[k] = pathJoin(outDir, NormalizedPathname(u, args.hint))
        /\ \A i \in 1..Len(result[k]) : result[k][i] \notin {"?", "#"}
        /\ u.pathname = <<"/", "blog", "/", "assets">>
             => result[k] = outDir \o <<"/", "blog", "/", "assets", ".", "html">>
        /\ u.pathname = <<"/", "blog", "/">>
             => result[k] = outDir \o <<"/", "blog", "/", "index", ".", "html">>
        /\ u.pathname = <<"/", "assets", "/", "app", ".", "css">>
             => result[k] = outDir \o u.pathname

\* /blog/assets?q#q was mapped to /blog/assets.html and /blog/ to
\* /blog/index.html
SameOriginMappingWitness ==
  /\ Len(result) >= 2
  /\ Origin(args.a) = Origin(root) /\ Origin(args.b) = Origin(root)
  /\ args.a.pathname = <<"/", "blog", "/", "assets">> /\ args.a.search = <<"q">>
  /\ args.b.pathname = <<"/", "blog", "/">>
  /\ result[1] = outDir \o <<"/", "blog", "/", "assets", ".", "html">>
  /\ result[2] = outDir \o <<"/", "blog", "/", "index", ".", "html">>

\* ------------------------------------------------------------------------
\* Properties of the crawl loop
\* ------------------------------------------------------------------------

\* the number of sub-tasks of the given kinds at the given place
SubsAt(kinds, pc) == Cardinality({s \in subs : s.kind \in kinds /\ s.pc = pc})

\* the number of page tasks of the batch at the given place
TasksAt(pc) == Cardinality({i \in 1..Len(batch) : batch[i].pc = pc})

\* a number that every step of the crawl makes smaller. A stylesheet not yet
\* fetched has three steps to go and schedules at most two downloads; a
\* page not yet fetched starts sub-tasks worth at most 14, is rewritten,
\* written, and pushes at most three links; there are fewer than 12 keys to
\* visit, each worth more than a page task; the seeding pushes fewer than
\* ten items.
Measure ==
  25 * (12 - Cardinality(seen))
    + Len(toVisit)
    + 20 * TasksAt("fetch") + 5 * TasksAt("rewrite") + 4 * TasksAt("write")
    + 5 * SubsAt({"css"}, "fetch") + 2 * SubsAt({"css"}, "write") + SubsAt({"css"}, "await")
    + SubsAt({"js", "img", "asset"}, "fetch")
    + (CASE phase = "seeding" -> 10 [] phase = "draining" -> 1 [] OTHER -> 0)

\* some step of the crawl can be taken: the seeding, the next batch or the
\* return, a page fetch or a page write, a step of a sub-task
CanStep ==
  \/ phase = "seeding"
  \/ phase = "draining" /\ BatchResolved
  \/ \E i \in 1..Len(batch) : batch[i].pc \in {"fetch", "write"}
  \/ \E s \in subs :
       \/ s.pc \in {"fetch", "write"}
       \/ /\ s.pc = "await"
          /\ \A a \in subs : a.page = s.page /\ a.kind = "asset" /\ a.parent = s.n => Settled(a)

\* C25: when every fetch completes, the run reaches Done: as long as crawl()
\* has not returned some step can be taken, and every step makes Measure,
\* which is never negative, smaller; crawl() has returned only with an empty
\* frontier and no page task in flight.
Termination ==
  /\ [](phase # "done" => CanStep)
  /\ [](Measure >= 0)
  /\ [][Measure' < Measure]_vars
  /\ [](phase = "done" => (Len(toVisit) = 0 /\ BatchResolved))

\* a run that fetched at least three pages, one of which failed, is done
TerminationWitness ==
  /\ phase = "done"
  /\ Len(fetchLog) >= 3
  /\ warned # {}

\* ------------------------------------------------------------------------
\* Properties of the command line
\* ------------------------------------------------------------------------

\* C26: when the start URL argument is missing or is not a URL, the process
\* exits with a non-zero status before any network request, before the
\* output directory is removed or created, and without starting the crawl.
StartupFailure ==
  (call.pc # "args" /\ (Len(call.start) = 0 \/ IsInvalidURL(call.start))) =>
    /\ call.pc = "exited" /\ call.status # 0
    /\ ~call.net /\ ~call.launched
    /\ call.dirs = {}
    /\ call.crawled = "no"

\* the argument h, which is not a URL, ended the run
StartupFailureWitness ==
  /\ call.pc = "exited" /\ call.start = RootHost
  /\ call.stderr = "Invalid URL provided"
  /\ call.status = 1

\* the sitemap entries that parse as URLs of the start URL's origin
SameOriginSeeds ==
  SelectSeq(discoverFromSitemap,
            LAMBDA s : ~IsInvalidURL(s) /\ Origin(ParseURL(s)) = Origin(root))

\* C27: with sitemap discovery on, no page is fetched before the discovery
\* is over, and the frontier then holds the start URL at depth 0 followed by
\* exactly the sitemap entries that parse and are same-origin, at depth 1.
SeedingOrder ==
  /\ phase = "seeding" => (fetchLog = <<>> /\ batch = <<>> /\ requests = {})
  /\ \A r \in requests : r.by = "sitemap" => opts.sitemap
  /\ (opts.sitemap /\ phase = "draining" /\ fetchLog = <<>>) =>
       /\ Len(toVisit) = 1 + Len(SameOriginSeeds)
       /\ toVisit[1] = [url |-> root, depth |-> 0]
       /\ \A k \in 1..Len(SameOriginSeeds) :
            toVisit[k + 1] = [url |-> ParseURL(SameOriginSeeds[k]), depth |-> 1]

\* both sitemaps were read: of the four entries the two same-origin ones
\* follow the start URL on the frontier
SeedingOrderWitness ==
  /\ opts.sitemap /\ phase = "draining" /\ fetchLog = <<>>
  /\ Len(discoverFromSitemap) = 4
  /\ Len(toVisit) = 3
  /\ \E r \in requests : r.by = "sitemap"

\* C30: every frontier item has the origin of the start URL, no page fetch
\* is issued to another origin, and an item at depth d > 0 is a same-origin
\* sitemap entry or a same-origin link, neither empty nor mailto:, tel: or
\* javascript:, of a page fetched at depth d - 1.
SameOriginFrontier ==
  /\ \A r \in requests : r.by = "page" => Origin(ParseURL(r.key)) = Origin(root)
  /\ \A k \in 1..Len(toVisit) :
       LET item == toVisit[k] IN
         /\ Origin(item.url) = Origin(root)
         /\ \/ item = [url |-> root, depth |-> 0]
            \/ item.depth = 1 /\ \E j \in 1..Len(SameOriginSeeds) :
                                   item.url = ParseURL(SameOriginSeeds[j])
            \/ \E n \in 1..Len(fetchLog) :
                 /\ fetchLog[n].depth = item.depth - 1
                 /\ \E h \in Range(SiteDoc(fetchLog[n].key).anchors) :
                      /\ Len(h) > 0
                      /\ ~(Len(h) >= 2 /\ h[1] \in {"mailto", "tel", "javascript"} /\ h[2] = ":")
                      /\ ~IsInvalidRef(h)
                      /\ toString(item.url)
                           = CanonicalKey(ResolveRef(h, ParseURL(fetchLog[n].key)))

\* the start page, with its mailto: link and its link to another origin,
\* and the page with tel:, javascript:, empty and unparseable links were
\* saved, and the frontier is empty again
SameOriginFrontierWitness ==
  /\ phase = "done"
  /\ Saved(startUrl)
  /\ Saved(Scheme \o RootHost \o PP)
  /\ Saved(Scheme \o RootHost \o PY)

\* the items of a batch as they were taken from the frontier
Items(b) == [i \in 1..Len(b) |-> [url |-> b[i].url, depth |-> b[i].depth]]

\* page tasks that have not resolved yet
InFlight(b) ==
  Cardinality({i \in 1..Len(b) : b[i].pc \notin {"skipped", "saved", "nonhtml", "failed"}})

\* C28: a batch holds at most `concurrency` items, so at most `concurrency`
\* page tasks are in flight; items leave the frontier only when every task
\* of the current batch has resolved, and they are the first items of the
\* frontier; between two batches the batch keeps its items.
BatchThenDrain ==
  /\ [](Len(batch) <= opts.concurrency /\ InFlight(batch) <= opts.concurrency)
  /\ [][ IF Len(toVisit') < Len(toVisit)
           THEN /\ InFlight(batch) = 0
                /\ Len(batch') = Min(opts.concurrency, Len(toVisit))
                /\ Items(batch') \o toVisit' = toVisit
           ELSE Items(batch') = Items(batch) ]_vars

\* two page tasks in flight with concurrency 2 while the frontier holds the
\* item of the next batch
BatchThenDrainWitness ==
  /\ opts.concurrency = 2
  /\ InFlight(batch) = 2
  /\ Len(toVisit) > 0

\* the keys of the page fetches started so far
StartedKeys(log) == {log[i].key : i \in 1..Len(log)}

\* C29: the visited set never loses a key; a key is added only by the step
\* that takes items from the frontier and starts their processing, one key
\* per page fetch started; putting a link on the frontier adds nothing; so
\* the visited set is the set of the keys whose processing has started.
VisitedSetDiscipline ==
  /\ [](seen = StartedKeys(fetchLog))
  /\ [][ /\ seen \subseteq seen'
         /\ seen' # seen =>
              /\ Len(toVisit') < Len(toVisit)
              /\ Cardinality(seen' \ seen) = Len(fetchLog') - Len(fetchLog)
         /\ Len(toVisit') > Len(toVisit) => seen' = seen ]_vars

\* two keys are visited and the frontier holds a link that is not
VisitedSetDisciplineWitness ==
  /\ Cardinality(seen) >= 2
  /\ \E k \in 1..Len(toVisit) : CanonicalKey(toVisit[k].url) \notin seen

\* the item is one of the seeds crawl() took from the sitemap
IsSeed(key, depth) ==
  /\ opts.sitemap /\ depth = 1
  /\ \E j \in 1..Len(SameOriginSeeds) : key = CanonicalKey(ParseURL(SameOriginSeeds[j]))

\* one of the first `upto` pages whose processing started has depth - 1, is
\* below maxDepth, was fetched as HTML and saved, and links to key
Discovered(key, depth, upto) ==
  \E n \in 1..upto :
    /\ fetchLog[n].depth = depth - 1
    /\ fetchLog[n].depth < opts.maxDepth
    /\ FetchOk(fetchLog[n].key) /\ IncludesHtml(ContentType(fetchLog[n].key))
    /\ Saved(fetchLog[n].key)
    /\ key \in LinkKeys(fetchLog[n].key)

\* C31: an item of depth k >= 1, on the frontier or in the batch, is a
\* sitemap seed (k = 1) or a link of a page of depth k - 1 < maxDepth that
\* was fetched as HTML before; the only item of depth 0 is the start URL; and
\* the processing of an item starts after that of the page that discovered it.
DepthCausality ==
  /\ \A item \in Range(toVisit) \cup Range(Items(batch)) :
       IF item.depth = 0 THEN item.url = root
       ELSE \/ IsSeed(CanonicalKey(item.url), item.depth)
            \/ Discovered(CanonicalKey(item.url), item.depth, Len(fetchLog))
  /\ \A m \in 1..Len(fetchLog) :
       fetchLog[m].depth >= 1 =>
         \/ IsSeed(fetchLog[m].key, fetchLog[m].depth)
         \/ Discovered(fetchLog[m].key, fetchLog[m].depth, m - 1)

\* without the sitemap and with maxDepth 2, the page /y found on /x, itself
\* found on the start page, is being processed at depth 2
DepthCausalityWitness ==
  /\ ~opts.sitemap /\ opts.maxDepth = 2
  /\ Len(fetchLog) = 3
  /\ fetchLog[3] = [key |-> KeyOf(PY), depth |-> 2]
  /\ fetchLog[2] = [key |-> KeyOf(PX), depth |-> 1]

\* the response to the page fetch of key came with a content type that does
\* not contain 'text/html'
AnsweredNonHtml(key) ==
  FetchOk(key) /\ ContentType(key) \notin {"text/html", HtmlType}

\* C32: a frontier item answered with a content type without 'text/html'
\* leaves no file, starts no sub-task, is not reported as skipped, stays in
\* the visited set and is fetched once; the step that sees the content type
\* leaves the frontier, the files, the warnings and the visited set alone.
NonHtmlQuiet ==
  /\ [](\A n \in 1..Len(fetchLog) :
          LET key == fetchLog[n].key IN
            AnsweredNonHtml(key) =>
              /\ \A f \in files : f.src # key
              /\ \A s \in subs : s.page # key
              /\ key \notin warned
              /\ key \in seen
              /\ FetchCount(key) = 1
              /\ \A i \in 1..Len(batch) :
                   TaskKey(batch[i]) = key => batch[i].pc \in {"fetch", "nonhtml", "skipped"})
  /\ [][\A i \in 1..Len(batch) :
          (batch[i].pc = "fetch" /\ i <= Len(batch') /\ batch'[i].pc = "nonhtml") =>
            /\ toVisit' = toVisit /\ files' = files
            /\ warned' = warned /\ seen' = seen
            /\ Len(fetchLog') = Len(fetchLog)]_vars

\* the crawl is over; /x, linked from the start page, was answered with a
\* PDF below maxDepth: the page /y it links to was never discovered
NonHtmlQuietWitness ==
  /\ phase = "done" /\ opts.maxDepth = 2
  /\ AnsweredNonHtml(KeyOf(PX))
  /\ FetchCount(KeyOf(PX)) = 1
  /\ Saved(startUrl)
  /\ KeyOf(PY) \notin seen

\* the page behind key was fetched as HTML and links a stylesheet that policy
\* allows to download and whose fetch fails after all retries
HasFailedStylesheet(key) ==
  /\ FetchOk(key) /\ ~AnsweredNonHtml(key)
  /\ \E k \in LinkedStylesheets(SiteDoc(key), ParseURL(key)) : ~FetchOk(k)

\* C33: a page that links a downloadable stylesheet whose fetch fails is
\* never written: its task goes from the rewrite to failed without reaching
\* the file write, no HTML file of it exists at any time, and once its task
\* has ended the page has been reported as skipped.
FailedStylesheetDropsPage ==
  \A n \in 1..Len(fetchLog) :
    LET key == fetchLog[n].key IN
      HasFailedStylesheet(key) =>
        /\ ~Saved(key)
        /\ PagePath(ParseURL(key)) \notin Paths(files)
        /\ \A i \in 1..Len(batch) :
             TaskKey(batch[i]) = key =>
               /\ batch[i].pc \in {"fetch", "rewrite", "failed", "skipped"}
               /\ batch[i].pc = "failed" => key \in warned
        /\ (\A i \in 1..Len(batch) :
              TaskKey(batch[i]) = key => batch[i].pc \notin {"fetch", "rewrite"})
             => key \in warned

\* the stylesheet of the start page could not be fetched: the run is over,
\* the start page was skipped and not written, while the page seeded from
\* the sitemap was saved
FailedStylesheetWitness ==
  /\ phase = "done"
  /\ HasFailedStylesheet(startUrl)
  /\ startUrl \in warned /\ ~Saved(startUrl)
  /\ Saved(KeyOf(PP))

\* the URL strings of the scripts of the page behind key that are downloaded
\* and whose download fails
FailedScripts(key) ==
  LET doc == SiteDoc(key) IN
    { toString(ResolveRef(doc.scripts[n], ParseURL(key))) :
        n \in { m \in 1..Len(doc.scripts) :
                  /\ ~IsInvalidRef(doc.scripts[m])
                  /\ Downloadable(ResolveRef(doc.scripts[m], ParseURL(key)))
                  /\ ~FetchOk(toString(ResolveRef(doc.scripts[m], ParseURL(key)))) } }

\* the URL strings of the images of the page behind key whose probe fails
FailedProbes(key) ==
  LET doc == SiteDoc(key) IN
    { toString(ResolveRef(doc.images[n], ParseURL(key))) :
        n \in { m \in 1..Len(doc.images) :
                  /\ ~IsInvalidRef(doc.images[m])
                  /\ ~FetchOk(toString(ResolveRef(doc.images[m], ParseURL(key)))) } }

\* C34: a script whose download fails, or under strategy "external" an image
\* whose probe fails, does not fail the rewrite: unless the page has another,
\* fatal, failure its task never fails, it is not reported as skipped and it
\* is saved when the run is over; in the saved page the script src is the
\* relative path of the local file, which does not exist, and the image src
\* is the 800x450 placeholder.
OptionalAssetsNotFatal ==
  /\ \A n \in 1..Len(fetchLog) :
       LET key == fetchLog[n].key IN
         ( /\ FetchOk(key) /\ ~AnsweredNonHtml(key)
           /\ \/ FailedScripts(key) # {}
              \/ opts.placeholder = "external" /\ FailedProbes(key) # {}
           /\ ~HasFatalCause([url |-> ParseURL(key)]) )
         => /\ \A i \in 1..Len(batch) : TaskKey(batch[i]) = key => batch[i].pc # "failed"
            /\ key \notin warned
            /\ phase = "done" => Saved(key)
  /\ \A f \in SavedPages : \A r \in f.refs :
       LET k == toString(ResolveRef(r.orig, ParseURL(f.src))) IN
         /\ (r.tag = "script" /\ ~IsInvalidRef(r.orig) /\ k \in FailedScripts(f.src)) =>
              /\ r.rewritten
              /\ r.val = makeRelative(f.path,
                           urlToLocalPath(root, ParseURL(k), outDir, <<".", "js">>))
              /\ urlToLocalPath(root, ParseURL(k), outDir, <<".", "js">>) \notin Paths(files)
         /\ ( /\ r.tag = "img" /\ ~IsInvalidRef(r.orig) /\ k \in FailedProbes(f.src)
              /\ opts.placeholder = "external" ) =>
              /\ r.rewritten
              /\ r.val = <<"https", ":", "/", "/", "placehold", ".", "co", "/", "800x450">>

\* the run is over: the start page, whose script could not be downloaded,
\* and the page /y, whose image /gone.png could not be probed, were saved
OptionalAssetsWitness ==
  /\ phase = "done" /\ opts.placeholder = "external"
  /\ FailedScripts(startUrl) # {} /\ Saved(startUrl)
  /\ FailedProbes(KeyOf(PY)) # {} /\ Saved(KeyOf(PY))
  /\ warned = {}

\* C35: of the items a turn of the loop dequeues, those whose key is already
\* visited (before the turn, or by an earlier item of the same batch) are
\* skipped and only those; the page fetches started, the requests issued and
\* the keys added to the visited set are those of the other items; no file
\* is written, nothing is enqueued, the rest of the frontier is kept; and a
\* skipped task does nothing afterwards.
SkipIsNoOp ==
  [][ IF Len(toVisit') < Len(toVisit)
        THEN LET n == Len(toVisit) - Len(toVisit')
                 key == [i \in 1..n |-> CanonicalKey(toVisit[i].url)]
                 skipped == {i \in 1..n : batch'[i].pc = "skipped"}
                 started == (1..n) \ skipped
             IN /\ Len(batch') = n
                /\ \A i \in 1..n :
                     i \in skipped <=>
                       (key[i] \in seen \/ \E j \in 1..(i - 1) : key[j] = key[i])
                /\ Len(fetchLog') = Len(fetchLog) + Cardinality(started)
                /\ requests' \ requests = {Request("page", key[i]) : i \in started}
                /\ seen' = seen \cup {key[i] : i \in started}
                /\ files' = files
                /\ toVisit' = SubSeq(toVisit, n + 1, Len(toVisit))
                /\ started = {} =>
                     (fetchLog' = fetchLog /\ requests' = requests /\ seen' = seen)
        ELSE \A i \in 1..Len(batch) :
               batch[i].pc = "skipped" => (i <= Len(batch') /\ batch'[i] = batch[i]) ]_vars

\* with concurrency 1 the second copy of /p, seeded from the sitemap index,
\* was dequeued and skipped while the frontier holds other items
SkipIsNoOpWitness ==
  /\ opts.concurrency = 1
  /\ Len(batch) = 1 /\ batch[1].pc = "skipped"
  /\ batch[1].url.hash # <<>>
  /\ TaskKey(batch[1]) \in seen
  /\ Len(toVisit) > 0

\* C36: when a browser session is active as runCLI reaches the crawl, the
\* concurrency it passes to crawl() is 1 whatever value was given; the
\* session stays while the crawl runs, and the crawl then never has more
\* than one page task in its batch or in flight.
ForcedSequential ==
  /\ (call.pc = "crawl" /\ call.page) => call.concurrency = 1
  /\ call.pc = "crawling" =>
       /\ hasBrowserSession <=> call.page
       /\ hasBrowserSession =>
            /\ opts.concurrency = 1
            /\ Len(batch) <= 1 /\ InFlight(batch) <= 1

\* --concurrency 2 was given, the challenge left a session, and the crawl is
\* fetching its second page on its own
ForcedSequentialWitness ==
  /\ call.pc = "crawling" /\ call.given = 2 /\ call.page
  /\ Len(fetchLog) = 2
  /\ InFlight(batch) = 1

\* the frontier after the step is the frontier before it with items added
\* at its end
Extended == Len(toVisit') >= Len(toVisit) /\ SubSeq(toVisit', 1, Len(toVisit)) = toVisit

\* crawl() pushes the sitemap seeds: no page task and no sub-task exists yet
SeedingStep ==
  /\ phase = "seeding" /\ phase' = "draining"
  /\ batch = <<>> /\ subs = {} /\ batch' = batch /\ subs' = subs
  /\ seen' = seen /\ Extended
  /\ \A k \in (Len(toVisit) + 1)..Len(toVisit') : toVisit'[k].depth = 1

\* the loop of crawl() takes a batch and each processPage marks its key:
\* the earlier page tasks have resolved, the items taken are the first ones,
\* no sub-task moves and no file is written
DequeueStep ==
  /\ phase = "draining" /\ InFlight(batch) = 0
  /\ Len(toVisit') < Len(toVisit)
  /\ toVisit' = SubSeq(toVisit, Len(toVisit) - Len(toVisit') + 1, Len(toVisit))
  /\ Len(batch') = Len(toVisit) - Len(toVisit')
  /\ seen \subseteq seen'
  /\ seen' \subseteq seen \cup {CanonicalKey(toVisit[k].url) :
                                  k \in 1..(Len(toVisit) - Len(toVisit'))}
  /\ subs' = subs /\ files' = files

\* processPage pushes links after rewriteAndSaveHTML has returned: the task
\* goes from the file write to saved, and the items added are links that
\* extractLinks finds in the HTML as it was fetched, one level deeper
EnqueueStep ==
  \E i \in 1..Len(batch) :
    /\ batch[i].pc = "write" /\ Len(batch') = Len(batch) /\ batch'[i].pc = "saved"
    /\ seen' = seen /\ Extended
    /\ batch[i].depth < opts.maxDepth
    /\ \A k \in (Len(toVisit) + 1)..Len(toVisit') :
         /\ toVisit'[k].depth = batch[i].depth + 1
         /\ toVisit'[k].url \in Range(extractLinks(SiteDoc(TaskKey(batch[i])), batch[i].url))

\* the frontier and the visited set change only when the loop dequeues a
\* batch and marks its keys, and when processPage enqueues extracted links
FrontierOwnedByLoop ==
  [][(toVisit' # toVisit \/ seen' # seen) => (DequeueStep \/ EnqueueStep)]_vars

\* C37: the frontier and the visited set change only in steps of crawl()
\* and processPage: the push of the sitemap seeds before the loop, the
\* dequeue of a batch with the marking of its keys, and the enqueue of
\* extracted links when rewriteAndSaveHTML has returned; the steps of the
\* stylesheet, script, image and download sub-tasks and of the page fetch
\* leave both as they are.
FrontierOwnership ==
  [][(toVisit' # toVisit \/ seen' # seen) =>
       (SeedingStep \/ DequeueStep \/ EnqueueStep)]_vars

\* the start page was saved with its stylesheet, the font of the stylesheet
\* and its script downloaded; the frontier holds the two seeds and the link
\* of the start page, the visited set the start URL only
FrontierOwnershipWitness ==
  /\ opts.sitemap /\ phase = "draining"
  /\ Saved(startUrl)
  /\ \E f \in files : f.kind = "css"
  /\ Cardinality({f \in files : f.kind = "bin"}) = 2
  /\ Len(toVisit) = 3
  /\ seen = {startUrl}

====
